---- MODULE Spec2Model ----
(***************************************************************************)
(* Model of the request-lifecycle engine of the AI Quiz Assistant.         *)
(*                                                                         *)
(* Part 1 - Request Lifecycle Tracker (src/src/request_manager.py).        *)
(* Every method of RequestManager is modelled statement by statement: a    *)
(* thread acquires self.lock, runs the body one statement per step and     *)
(* releases the lock when it leaves the `with` block.                      *)
(***************************************************************************)
EXTENDS Integers, Sequences, FiniteSets, TLC

(***************************************************************************)
(* Bounds of the model.                                                    *)
(***************************************************************************)
\* number of threads that call the Tracker concurrently
NumThreads == 2
\* number of create_request() calls explored (one uuid4 per call)
MaxRequests == 3
\* largest value of the wall clock time.time()
MaxClock == 2

Threads == 1..NumThreads
NoThread == 0

(***************************************************************************)
(* Values.  Python None is the empty tuple; a present Optional value v is  *)
(* the one-element tuple <<v>>.                                            *)
(***************************************************************************)
None == <<>>
Some(v) == <<v>>

\* models.py: QuizQuestion (number, answer; the question text plays no role)
QuizQuestion(number, answer) == [number |-> number, answer |-> answer]
\* models.py: QuizResult
QuizResult(questions) == [questions |-> questions]
\* the results the analysis service may hand to set_result
Results == { QuizResult(<<QuizQuestion("1", "A")>>),
             QuizResult(<<QuizQuestion("2", "B")>>) }
\* the messages handed to set_error
ErrorMessages == { "No questions found in image",
                   "Timeout: API not responding" }
\* the strings handed to update_status
StatusValues == { "NONE", "PROCESSING", "COMPLETED", "ERROR" }

\* models.py: dataclass Request
Request(id, status, created_at, result, error) ==
    [id |-> id, status |-> status, created_at |-> created_at,
     result |-> result, error |-> error]

VARIABLES
    current_request,  \* RequestManager.current_request: None or a Request
    lock,             \* RequestManager.lock: NoThread or the holding thread
    pc,               \* per thread: the statement it is about to execute
    arg,              \* per thread: the argument of the running call
    request_id,       \* per thread: local request_id of create_request
    status_info,      \* per thread: local status_info of get_current_status
    nextId,           \* source of uuid.uuid4(): ids are never repeated
    clock,            \* time.time()
    lastOp,           \* the mutating call that acquired the lock last
    committed,        \* current_request as the last whole call left it
    issued            \* ids returned by create_request so far

\* Part 2 - the state of QuizAssistantApp (src/src/main.py) and of its
\* ThreadPoolExecutor
VARIABLES
    _running,            \* QuizAssistantApp._running
    listener,            \* HotkeyListener: created, started or stopped
    _last_capture_time,  \* QuizAssistantApp._last_capture_time
    _active_futures,     \* keys of QuizAssistantApp._active_futures
    _shutdown,           \* ThreadPoolExecutor._shutdown
    _work_queue,         \* ThreadPoolExecutor._work_queue: request ids
    future,              \* request id -> the Future submit() returned for it
    hook,                \* per input-hook thread: position and locals
    worker,              \* per pool thread: position and locals
    log                  \* what has been done on behalf of the requests

\* Part 3 - the state of HotkeyListener (src/src/hotkey_listener.py)
VARIABLES
    hotkeys,                \* HotkeyListener.hotkeys: None until __init__
    keyboard_listener,      \* the keyboard.Listener thread: none, alive, ended
    mouse_listener,         \* the mouse.Listener thread: none, alive, ended
    alt_pressed,            \* HotkeyListener.alt_pressed
    middle_button_pressed,  \* HotkeyListener.middle_button_pressed
    _last_hotkey_time,      \* HotkeyListener._last_hotkey_time
    ticks,                  \* time.time() in tenths of a second
    accepted,               \* per character: its last press that fired
    event                   \* the event handled last and what it led to

\* Part 4 - the state of PopupManager (src/src/popup_manager.py) and of Tk
VARIABLES
    command_queue,   \* PopupManager.command_queue
    current_popup,   \* PopupManager.current_popup: None or a Toplevel
    _is_visible,     \* PopupManager._is_visible
    surfaces,        \* the Toplevel windows that exist
    nextSurface,     \* the Toplevel that tk.Toplevel() creates next
    puts,            \* number of commands enqueued so far
    producer,        \* per calling thread: position and locals
    ui               \* the Tkinter thread: position and locals

\* Part 5 - the answer history of QuizAssistantApp (src/src/main.py)
VARIABLES
    _answer_history, \* QuizAssistantApp._answer_history
    answers_txt,     \* the file logs/answers.txt: None or its content
    success,         \* per pool thread: position in _on_api_success
    resetting        \* the keyboard thread in on_reset_answers_hotkey

\* Part 6 - the toggle handlers of QuizAssistantApp (src/src/main.py)
VARIABLES
    toggle           \* per listener thread: position in its toggle handler

appVars == << _running, listener, _last_capture_time, _active_futures,
              _shutdown, _work_queue, future, hook, worker, log >>

keyVars == << hotkeys, keyboard_listener, mouse_listener, alt_pressed,
              middle_button_pressed, _last_hotkey_time, ticks, accepted,
              event >>
\* the parts of the program that neither the Tracker nor the Orchestrator
\* touches
relayVars == << command_queue, current_popup, _is_visible, surfaces,
                nextSurface, puts, producer, ui >>
answersVars == << _answer_history, answers_txt, success, resetting >>
otherParts == << keyVars, relayVars, answersVars, toggle >>

vars == << current_request, lock, pc, arg, request_id, status_info,
           nextId, clock, lastOp, committed, issued, appVars, otherParts >>

locals == << arg, request_id, status_info >>
history == << lastOp, committed, issued >>
\* what only the statement-level model of the Tracker uses
trackerThreads == << lock, pc, locals, history, otherParts >>

\* models.py: Request.get_elapsed_time
get_elapsed_time(req) == clock - req.created_at

\* the dictionary get_current_status returns when there is no request
NoneStatus ==
    [status |-> "NONE", result |-> None, error |-> None, elapsed_time |-> None]

\* the record of a mutating call: made when the call acquires the lock ...
Op(name, t, a) ==
    [op |-> name, thread |-> t, arg |-> a,
     done |-> FALSE, applied |-> FALSE, ret |-> None]

Begin(name, t, a) == lastOp' = Op(name, t, a)

\* ... and completed when the call leaves its `with` block: whether it found
\* a current request to act on, and what it returns
Finish(t, applied, ret) ==
    /\ lastOp' = IF lastOp.thread = t
                    THEN [lastOp EXCEPT !.done = TRUE, !.applied = applied,
                                        !.ret = ret]
                    ELSE lastOp
    /\ committed' = current_request

\* thread t of the Tracker model moves on to the statement `label`; a
\* statement of RequestManager touches nothing of the application
Goto(t, label) ==
    /\ pc' = [pc EXCEPT ![t] = label]
    /\ UNCHANGED << appVars, otherParts >>

\* a lock that does not make the caller wait
AcquireNoWait(t) == lock' = t

\* `with self.lock:` entered: blocks until the lock is free
Acquire(t) == lock = NoThread /\ lock' = t
\* `with self.lock:` left by the thread that entered it
Release(t) == lock' = IF lock = t THEN NoThread ELSE lock

\* the thread returns to its caller; its locals are gone
Return(t) ==
    /\ Goto(t, "idle")
    /\ arg' = [arg EXCEPT ![t] = None]
    /\ request_id' = [request_id EXCEPT ![t] = 0]
    /\ status_info' = [status_info EXCEPT ![t] = None]

\* an attribute access on None raises AttributeError, which leaves the
\* `with` block (releasing the lock) and propagates to the caller
Raise(t) ==
    /\ Goto(t, "raised")
    /\ Release(t)

(***************************************************************************)
(* Values of the application (src/src/main.py).                            *)
(***************************************************************************)
\* the threads of the two pynput listeners, which run the hotkey callbacks
Hooks == { "keyboard", "mouse" }
\* ThreadPoolExecutor(max_workers=2)
max_workers == 2
\* a pool that starts one thread more than max_workers
OneWorkerMore == 1..(max_workers + 1)
Workers == 1..max_workers
\* self._capture_cooldown = 2.0
_capture_cooldown == 2
\* time.time() counts from 1970 and the model's clock from the start of the
\* program: StartTime is time.time() at that moment
StartTime == 1000
time(now) == StartTime + now
\* a call of time.time(): the clock has moved on, by any amount, since it
\* was read last
Now(now) == now \in clock..MaxClock /\ clock' = now

\* the request ids create_request can hand out
RequestIds == 1..MaxRequests

\* a Future of concurrent.futures: its state, the exception it carries and
\* whether the done-callback of on_capture_hotkey is registered on it
Future(state, exception, callback) ==
    [state |-> state, exception |-> exception, callback |-> callback]
\* no Future exists for a request id until submit() creates one
NoFuture == Future("NONE", None, FALSE)
\* Future.done()
done(f) == f.state \in { "CANCELLED", "FINISHED" }

\* an input-hook thread between two callbacks
IdleHook == [pc |-> "idle", current_time |-> 0, request_id |-> 0,
             items |-> {}]
\* a pool thread waiting on the work queue
IdleWorker == [pc |-> "idle", request_id |-> 0, outcome |-> None]
\* a call of a RequestManager method, or no call at all
Call(method, a) == [method |-> method, arg |-> a]
NoCall == Call("none", None)
\* the log: per request the number of Tracker calls made on its behalf and
\* how each run of its completion handler ended; the task that finished
\* last, with what the service did; the Tracker call made last
NoLog ==
    [updates |-> [r \in RequestIds |-> 0],
     completion |-> [r \in RequestIds |-> <<>>],
     task |-> [rid |-> 0, behaviour |-> None, call |-> NoCall],
     last |-> [rid |-> 0, by |-> "nobody", call |-> NoCall]]

(***************************************************************************)
(* Values of the dispatcher (src/src/hotkey_listener.py).                  *)
(***************************************************************************)
\* the largest reading of time.time(), in tenths of a second after the start
MaxTicks == 6
\* time.time() in tenths of a second
StartTenths == 10 * StartTime
tenths(now) == StartTenths + now
\* self._hotkey_cooldown = 0.5, in tenths of a second
_hotkey_cooldown == 5

\* the actions a character can be bound to, in the order on_key_press tests
\* them, and the callback of each
ActionNames == << "capture", "results", "answers", "reset", "settings" >>
CallbackOf ==
    [capture |-> "on_capture_key", results |-> "on_check_key",
     answers |-> "on_show_answers", reset |-> "on_reset_answers",
     settings |-> "on_setup"]
\* HotkeyListener.DEFAULT_HOTKEYS
DEFAULT_HOTKEYS ==
    [capture |-> "z", results |-> "x", answers |-> "c", reset |-> "r",
     settings |-> "s"]
\* what the settings file may hold of the hotkey_* keys; the settings dialog
\* stores one lower-case letter per key and does not compare the keys
NoSettings == [k \in {} |-> ""]
SettingsFiles ==
    { NoSettings,
      [hotkey_capture |-> "c", hotkey_results |-> "r", hotkey_answers |-> "z",
       hotkey_reset |-> "x"],
      [hotkey_capture |-> "c", hotkey_results |-> "r", hotkey_answers |-> "a",
       hotkey_reset |-> "b", hotkey_settings |-> "z"],
      [hotkey_answers |-> "z"] }
\* SettingsManager.get(key, default)
get(settings, key, default) ==
    IF key \in DOMAIN settings THEN settings[key] ELSE default
\* HotkeyListener._load_hotkeys
_load_hotkeys(settings) ==
    [capture |-> get(settings, "hotkey_capture", "z"),
     results |-> get(settings, "hotkey_results", "x"),
     answers |-> get(settings, "hotkey_answers", "c"),
     reset |-> get(settings, "hotkey_reset", "r"),
     settings |-> get(settings, "hotkey_settings", "s")]

\* pynput keys: a member of keyboard.Key, or a KeyCode with its char, which
\* is None for a key that prints nothing
Key(name) == [class |-> "Key", name |-> name, char |-> None]
KeyCode(char) == [class |-> "KeyCode", name |-> "", char |-> char]
AltKeys == { Key("alt"), Key("alt_l"), Key("alt_r") }
\* the characters typed in the model, their lower-case forms, and str.lower
\* (the grave accent, the exit character, cannot be written in a string)
Grave == "grave accent"
Chars == { "z", "Z", "x", Grave }
lower(char) == IF char = "Z" THEN "z" ELSE char
LowerChars == { lower(char) : char \in Chars }
\* the keys pressed and released in the model
Keys ==
    { Key("alt"), Key("alt_r"), Key("delete"), Key("shift"), KeyCode(None) }
        \cup { KeyCode(Some(char)) : char \in Chars }
\* mouse buttons and the dy of a scroll event
Buttons == { "middle", "left" }
Scrolls == { -1, 0, 1 }

\* no event has been handled yet
NoEvent ==
    [handler |-> "none", key |-> Key("none"), button |-> "", pressed |-> FALSE,
     dy |-> 0, time |-> 0, again |-> FALSE, invoked |-> <<>>,
     behaviour |-> "returns", ended |-> "returned"]

InitKeys ==
    /\ hotkeys = None
    /\ keyboard_listener = "none"
    /\ mouse_listener = "none"
    /\ alt_pressed = FALSE
    /\ middle_button_pressed = FALSE
    /\ _last_hotkey_time = [char \in LowerChars |-> 0]
    /\ ticks = 0
    /\ accepted = [char \in LowerChars |-> 0]
    /\ event = NoEvent

(***************************************************************************)
(* Values of the Command Relay (src/src/popup_manager.py).                 *)
(***************************************************************************)
\* number of show/hide calls explored
MaxCommands == 3
\* number of Toplevel windows explored
MaxSurfaces == 3
\* what show() is given to display
Contents == { "X", "Y" }
\* the tuple put on the queue, with the number of the put that enqueued it
Command(command, content, seq) ==
    [command |-> command, content |-> content, seq |-> seq]
NoCommand == Command("none", "", 0)
\* a thread that calls the PopupManager, between two calls
IdleProducer == [pc |-> "idle", command |-> NoCommand, ref |-> None]
\* the Tkinter thread in its mainloop, between two runs of _process_commands
IdleUi == [pc |-> "idle", command |-> NoCommand, popup |-> None]

InitRelay ==
    /\ command_queue = <<>>
    /\ current_popup = None
    /\ _is_visible = FALSE
    /\ surfaces = {}
    /\ nextSurface = 1
    /\ puts = 0
    /\ producer = [p \in Hooks |-> IdleProducer]
    /\ ui = IdleUi

(***************************************************************************)
(* Values of the answer history (src/src/main.py).  A text is the sequence *)
(* of its characters, so that joining and splitting are computed.          *)
(***************************************************************************)
\* the characters str.strip() and str.split() take for white space
Whitespace == { " " }

\* str.join: the entries of h with separator between them
RECURSIVE join(_, _)
join(separator, h) ==
    IF h = <<>> THEN <<>>
    ELSE IF Len(h) = 1 THEN h[1]
    ELSE h[1] \o separator \o join(separator, Tail(h))

\* str.split() without argument: the runs of characters that are not white
\* space; `word` is the run being read
RECURSIVE SplitFrom(_, _)
SplitFrom(text, word) ==
    LET finished == IF word = <<>> THEN <<>> ELSE << word >>
    IN  IF text = <<>> THEN finished
        ELSE IF Head(text) \in Whitespace
            THEN finished \o SplitFrom(Tail(text), <<>>)
        ELSE SplitFrom(Tail(text), Append(word, Head(text)))
split(text) == SplitFrom(text, <<>>)

\* str.strip(): without the white space at both ends
RECURSIVE lstrip(_)
lstrip(text) ==
    IF text # <<>> /\ Head(text) \in Whitespace THEN lstrip(Tail(text))
    ELSE text
RECURSIVE rstrip(_)
rstrip(text) ==
    IF text # <<>> /\ text[Len(text)] \in Whitespace
        THEN rstrip(SubSeq(text, 1, Len(text) - 1))
    ELSE text
strip(text) == rstrip(lstrip(text))

\* what a file holds after `written` is flushed at offset 0 of `content`
Overwrite(content, written) ==
    written \o SubSeq(content, Len(written) + 1, Len(content))

\* the QuizResults a successful analysis hands to _on_api_success: an
\* answer may be a letter, white space, empty, or several words
AnswerResults ==
    { QuizResult(<< QuizQuestion(<<"1">>, <<"A">>),
                    QuizQuestion(<<"2">>, <<" ">>),
                    QuizQuestion(<<"3">>, <<"B">>) >>),
      QuizResult(<< QuizQuestion(<<"4">>, <<>>) >>),
      QuizResult(<< QuizQuestion(<<"5">>, <<"A", " ", "B">>) >>) }

\* a pool thread outside _on_api_success
IdleSuccess == [pc |-> "idle", result |-> None, i |-> 0, f |-> "closed",
                data |-> <<>>]
\* the keyboard thread outside on_reset_answers_hotkey
IdleReset == [pc |-> "idle", count |-> 0]

InitAnswers ==
    /\ _answer_history = <<>>
    /\ answers_txt = None
    /\ success = [w \in Workers |-> IdleSuccess]
    /\ resetting = IdleReset

\* a listener thread outside on_check_hotkey and on_show_answers_hotkey
IdleHandler == [pc |-> "idle", action |-> "none", status_info |-> None]

InitToggle == toggle = [h \in Hooks |-> IdleHandler]

InitApp ==
    /\ _running = FALSE
    /\ listener = "created"
    /\ _last_capture_time = 0
    /\ _active_futures = {}
    /\ _shutdown = FALSE
    /\ _work_queue = <<>>
    /\ future = [r \in RequestIds |-> NoFuture]
    /\ hook = [h \in Hooks |-> IdleHook]
    /\ worker = [w \in Workers |-> IdleWorker]
    /\ log = NoLog

Init ==
    /\ InitApp
    /\ InitKeys
    /\ InitRelay
    /\ InitAnswers
    /\ InitToggle
    /\ current_request = None
    /\ lock = NoThread
    /\ pc = [t \in Threads |-> "idle"]
    /\ arg = [t \in Threads |-> None]
    /\ request_id = [t \in Threads |-> 0]
    /\ status_info = [t \in Threads |-> None]
    /\ nextId = 1
    /\ clock = 0
    /\ lastOp = [Op("init", NoThread, None) EXCEPT !.done = TRUE]
    /\ committed = None
    /\ issued = {}

(***************************************************************************)
(* create_request                                                          *)
(***************************************************************************)
CreateAcquire(t) ==
    /\ pc[t] = "idle"
    /\ nextId <= MaxRequests
    /\ Acquire(t)
    /\ Begin("create", t, None)
    /\ Goto(t, "create_uuid")
    /\ UNCHANGED << current_request, locals, nextId, clock, committed, issued >>

CreateUuid(t) ==
    /\ pc[t] = "create_uuid"
    /\ request_id' = [request_id EXCEPT ![t] = nextId]
    /\ nextId' = nextId + 1
    /\ Goto(t, "create_assign")
    /\ UNCHANGED << current_request, lock, arg, status_info, clock, history >>

\* a create that resets the status but keeps the replaced Request's fields
CreateAssignKeepFields(t) ==
    /\ pc[t] = "create_assign"
    /\ current_request' =
           IF current_request = None
              THEN Request(request_id[t], "PROCESSING", clock, None, None)
              ELSE Request(request_id[t], "PROCESSING", clock,
                           current_request.result, current_request.error)
    /\ Goto(t, "create_return")
    /\ UNCHANGED << lock, locals, nextId, clock, history >>

CreateAssign(t) ==
    /\ pc[t] = "create_assign"
    /\ current_request' =
           Request(request_id[t], "PROCESSING", clock, None, None)
    /\ Goto(t, "create_return")
    /\ UNCHANGED << lock, locals, nextId, clock, history >>

CreateReturn(t) ==
    /\ pc[t] = "create_return"
    /\ Release(t)
    /\ Finish(t, TRUE, Some(request_id[t]))
    /\ issued' = issued \cup {request_id[t]}
    /\ Return(t)
    /\ UNCHANGED << current_request, nextId, clock >>

(***************************************************************************)
(* update_status                                                           *)
(***************************************************************************)
UpdateStatusAcquire(t, status) ==
    /\ pc[t] = "idle"
    /\ Acquire(t)
    /\ Begin("update_status", t, Some(status))
    /\ arg' = [arg EXCEPT ![t] = Some(status)]
    /\ Goto(t, "update_status_check")
    /\ UNCHANGED << current_request, request_id, status_info, nextId, clock,
                    committed, issued >>

\* if self.current_request:
UpdateStatusCheck(t) ==
    /\ pc[t] = "update_status_check"
    /\ IF current_request # None
          THEN Goto(t, "update_status_write")
          ELSE Goto(t, "update_status_skip")
    /\ UNCHANGED << current_request, lock, locals, nextId, clock, history >>

\* self.current_request.status = status
UpdateStatusWrite(t) ==
    /\ pc[t] = "update_status_write"
    /\ IF current_request = None
          THEN Raise(t) /\ UNCHANGED current_request
          ELSE /\ current_request' =
                      [current_request EXCEPT !.status = arg[t][1]]
               /\ Goto(t, "update_status_exit")
               /\ UNCHANGED lock
    /\ UNCHANGED << locals, nextId, clock, history >>

UpdateStatusExit(t) ==
    /\ pc[t] \in {"update_status_exit", "update_status_skip"}
    /\ Release(t)
    /\ Finish(t, pc[t] = "update_status_exit", None)
    /\ Return(t)
    /\ UNCHANGED << current_request, nextId, clock, issued >>

(***************************************************************************)
(* set_result                                                              *)
(***************************************************************************)
\* a set_result whose body is not inside `with self.lock:`
SetResultEnterNoLock(t, result) ==
    /\ pc[t] = "idle"
    /\ Begin("set_result", t, Some(result))
    /\ arg' = [arg EXCEPT ![t] = Some(result)]
    /\ Goto(t, "set_result_check")
    /\ UNCHANGED << current_request, lock, request_id, status_info, nextId,
                    clock, committed, issued >>

SetResultAcquire(t, result) ==
    /\ pc[t] = "idle"
    /\ Acquire(t)
    /\ Begin("set_result", t, Some(result))
    /\ arg' = [arg EXCEPT ![t] = Some(result)]
    /\ Goto(t, "set_result_check")
    /\ UNCHANGED << current_request, request_id, status_info, nextId, clock,
                    committed, issued >>

\* if self.current_request:
SetResultCheck(t) ==
    /\ pc[t] = "set_result_check"
    /\ IF current_request # None
          THEN Goto(t, "set_result_result")
          ELSE Goto(t, "set_result_skip")
    /\ UNCHANGED << current_request, lock, locals, nextId, clock, history >>

\* self.current_request.result = result
SetResultWriteResult(t) ==
    /\ pc[t] = "set_result_result"
    /\ IF current_request = None
          THEN Raise(t) /\ UNCHANGED current_request
          ELSE /\ current_request' = [current_request EXCEPT !.result = arg[t]]
               /\ Goto(t, "set_result_status")
               /\ UNCHANGED lock
    /\ UNCHANGED << locals, nextId, clock, history >>

\* a set_result that completes only a Request that is still PROCESSING
SetResultWriteStatusIfProcessing(t) ==
    /\ pc[t] = "set_result_status"
    /\ current_request # None
    /\ current_request' =
           IF current_request.status = "PROCESSING"
              THEN [current_request EXCEPT !.status = "COMPLETED"]
              ELSE current_request
    /\ Goto(t, "set_result_exit")
    /\ UNCHANGED << lock, locals, nextId, clock, history >>

\* self.current_request.status = "COMPLETED"
SetResultWriteStatus(t) ==
    /\ pc[t] = "set_result_status"
    /\ IF current_request = None
          THEN Raise(t) /\ UNCHANGED current_request
          ELSE /\ current_request' =
                      [current_request EXCEPT !.status = "COMPLETED"]
               /\ Goto(t, "set_result_exit")
               /\ UNCHANGED lock
    /\ UNCHANGED << locals, nextId, clock, history >>

SetResultExit(t) ==
    /\ pc[t] \in {"set_result_exit", "set_result_skip"}
    /\ Release(t)
    /\ Finish(t, pc[t] = "set_result_exit", None)
    /\ Return(t)
    /\ UNCHANGED << current_request, nextId, clock, issued >>

(***************************************************************************)
(* set_error                                                               *)
(***************************************************************************)
SetErrorAcquire(t, error_message) ==
    /\ pc[t] = "idle"
    /\ Acquire(t)
    /\ Begin("set_error", t, Some(error_message))
    /\ arg' = [arg EXCEPT ![t] = Some(error_message)]
    /\ Goto(t, "set_error_check")
    /\ UNCHANGED << current_request, request_id, status_info, nextId, clock,
                    committed, issued >>

\* a set_error without the `if self.current_request:` guard
SetErrorCheckNoGuard(t) ==
    /\ pc[t] = "set_error_check"
    /\ Goto(t, "set_error_error")
    /\ UNCHANGED << current_request, lock, locals, nextId, clock, history >>

\* if self.current_request:
SetErrorCheck(t) ==
    /\ pc[t] = "set_error_check"
    /\ IF current_request # None
          THEN Goto(t, "set_error_error")
          ELSE Goto(t, "set_error_skip")
    /\ UNCHANGED << current_request, lock, locals, nextId, clock, history >>

\* a set_error that keeps the message of an earlier error
SetErrorWriteErrorKeepFirst(t) ==
    /\ pc[t] = "set_error_error"
    /\ current_request # None
    /\ current_request' =
           IF current_request.error = None
              THEN [current_request EXCEPT !.error = arg[t]]
              ELSE current_request
    /\ Goto(t, "set_error_status")
    /\ UNCHANGED << lock, locals, nextId, clock, history >>

\* self.current_request.error = error_message
SetErrorWriteError(t) ==
    /\ pc[t] = "set_error_error"
    /\ IF current_request = None
          THEN Raise(t) /\ UNCHANGED current_request
          ELSE /\ current_request' = [current_request EXCEPT !.error = arg[t]]
               /\ Goto(t, "set_error_status")
               /\ UNCHANGED lock
    /\ UNCHANGED << locals, nextId, clock, history >>

\* self.current_request.status = "ERROR"
SetErrorWriteStatus(t) ==
    /\ pc[t] = "set_error_status"
    /\ IF current_request = None
          THEN Raise(t) /\ UNCHANGED current_request
          ELSE /\ current_request' =
                      [current_request EXCEPT !.status = "ERROR"]
               /\ Goto(t, "set_error_exit")
               /\ UNCHANGED lock
    /\ UNCHANGED << locals, nextId, clock, history >>

SetErrorExit(t) ==
    /\ pc[t] \in {"set_error_exit", "set_error_skip"}
    /\ Release(t)
    /\ Finish(t, pc[t] = "set_error_exit", None)
    /\ Return(t)
    /\ UNCHANGED << current_request, nextId, clock, issued >>

(***************************************************************************)
(* clear_request                                                           *)
(***************************************************************************)
ClearAcquire(t) ==
    /\ pc[t] = "idle"
    /\ Acquire(t)
    /\ Begin("clear", t, None)
    /\ Goto(t, "clear_assign")
    /\ UNCHANGED << current_request, locals, nextId, clock, committed, issued >>

\* a clear that marks the Request NONE instead of discarding it
ClearAssignStatusOnly(t) ==
    /\ pc[t] = "clear_assign"
    /\ current_request' =
           IF current_request = None
              THEN None
              ELSE [current_request EXCEPT !.status = "NONE"]
    /\ Goto(t, "clear_exit")
    /\ UNCHANGED << lock, locals, nextId, clock, history >>

\* self.current_request = None
ClearAssign(t) ==
    /\ pc[t] = "clear_assign"
    /\ current_request' = None
    /\ Goto(t, "clear_exit")
    /\ UNCHANGED << lock, locals, nextId, clock, history >>

ClearExit(t) ==
    /\ pc[t] = "clear_exit"
    /\ Release(t)
    /\ Finish(t, TRUE, None)
    /\ Return(t)
    /\ UNCHANGED << current_request, nextId, clock, issued >>

(***************************************************************************)
(* get_current_status                                                      *)
(***************************************************************************)
GetStatusAcquire(t) ==
    /\ pc[t] = "idle"
    /\ Acquire(t)
    /\ Goto(t, "get_status_check")
    /\ UNCHANGED << current_request, locals, nextId, clock, history >>

\* if not self.current_request: return {"status": "NONE", ...}
GetStatusCheck(t) ==
    /\ pc[t] = "get_status_check"
    /\ IF current_request = None
          THEN /\ status_info' = [status_info EXCEPT ![t] = NoneStatus]
               /\ Goto(t, "get_status_return")
          ELSE /\ status_info' = [status_info EXCEPT ![t] = None]
               /\ Goto(t, "get_status_status")
    /\ UNCHANGED << current_request, lock, arg, request_id, nextId, clock,
                    history >>

\* "status": self.current_request.status
GetStatusReadStatus(t) ==
    /\ pc[t] = "get_status_status"
    /\ IF current_request = None
          THEN Raise(t) /\ UNCHANGED status_info
          ELSE /\ status_info' = [status_info EXCEPT ![t] =
                      [NoneStatus EXCEPT !.status = current_request.status]]
               /\ Goto(t, "get_status_result")
               /\ UNCHANGED lock
    /\ UNCHANGED << current_request, arg, request_id, nextId, clock, history >>

\* "result": self.current_request.result
GetStatusReadResult(t) ==
    /\ pc[t] = "get_status_result"
    /\ IF current_request = None
          THEN Raise(t) /\ UNCHANGED status_info
          ELSE /\ status_info' = [status_info EXCEPT ![t].result =
                                      current_request.result]
               /\ Goto(t, "get_status_error")
               /\ UNCHANGED lock
    /\ UNCHANGED << current_request, arg, request_id, nextId, clock, history >>

\* "error": self.current_request.error, "elapsed_time": None
GetStatusReadError(t) ==
    /\ pc[t] = "get_status_error"
    /\ IF current_request = None
          THEN Raise(t) /\ UNCHANGED status_info
          ELSE /\ status_info' = [status_info EXCEPT ![t].error =
                                      current_request.error]
               /\ Goto(t, "get_status_elapsed")
               /\ UNCHANGED lock
    /\ UNCHANGED << current_request, arg, request_id, nextId, clock, history >>

\* a snapshot that reports the elapsed time of every unfinished Request
GetStatusElapsedUnlessCompleted(t) ==
    /\ pc[t] = "get_status_elapsed"
    /\ current_request # None
    /\ IF current_request.status # "COMPLETED"
          THEN status_info' = [status_info EXCEPT ![t].elapsed_time =
                   Some(get_elapsed_time(current_request))]
          ELSE UNCHANGED status_info
    /\ Goto(t, "get_status_return")
    /\ UNCHANGED << current_request, lock, arg, request_id, nextId, clock,
                    history >>

\* if self.current_request.status == "PROCESSING":
\*     status_info["elapsed_time"] = self.current_request.get_elapsed_time()
GetStatusElapsed(t) ==
    /\ pc[t] = "get_status_elapsed"
    /\ IF current_request = None
          THEN Raise(t) /\ UNCHANGED status_info
          ELSE /\ IF current_request.status = "PROCESSING"
                     THEN status_info' = [status_info EXCEPT ![t].elapsed_time =
                              Some(get_elapsed_time(current_request))]
                     ELSE UNCHANGED status_info
               /\ Goto(t, "get_status_return")
               /\ UNCHANGED lock
    /\ UNCHANGED << current_request, arg, request_id, nextId, clock, history >>

\* return status_info
GetStatusReturn(t) ==
    /\ pc[t] = "get_status_return"
    /\ Release(t)
    /\ Return(t)
    /\ UNCHANGED << current_request, nextId, clock, history >>

\* time passes
Tick ==
    /\ clock < MaxClock
    /\ clock' = clock + 1
    /\ UNCHANGED << current_request, lock, pc, locals, nextId, history,
                    appVars, otherParts >>

Next ==
    \/ \E t \in Threads :
        \/ CreateAcquire(t) \/ CreateUuid(t) \/ CreateAssign(t)
        \/ CreateReturn(t)
        \/ \E status \in StatusValues : UpdateStatusAcquire(t, status)
        \/ UpdateStatusCheck(t) \/ UpdateStatusWrite(t) \/ UpdateStatusExit(t)
        \/ \E result \in Results : SetResultAcquire(t, result)
        \/ SetResultCheck(t) \/ SetResultWriteResult(t)
        \/ SetResultWriteStatus(t) \/ SetResultExit(t)
        \/ \E error_message \in ErrorMessages : SetErrorAcquire(t, error_message)
        \/ SetErrorCheck(t) \/ SetErrorWriteError(t)
        \/ SetErrorWriteStatus(t) \/ SetErrorExit(t)
        \/ ClearAcquire(t) \/ ClearAssign(t) \/ ClearExit(t)
        \/ GetStatusAcquire(t) \/ GetStatusCheck(t) \/ GetStatusReadStatus(t)
        \/ GetStatusReadResult(t) \/ GetStatusReadError(t)
        \/ GetStatusElapsed(t) \/ GetStatusReturn(t)
    \/ Tick

Spec == Init /\ [][Next]_vars

(***************************************************************************)
(* The Tracker as the application drives it (src/src/main.py): the capture *)
(* handler calls create_request, the completion paths of the analysis      *)
(* tasks call set_result and set_error, and the results toggle calls       *)
(* get_current_status.  update_status and clear_request have no caller.    *)
(***************************************************************************)
NextCalls ==
    \/ \E t \in Threads :
        \/ CreateAcquire(t) \/ CreateUuid(t) \/ CreateAssign(t)
        \/ CreateReturn(t)
        \/ \E result \in Results : SetResultAcquire(t, result)
        \/ SetResultCheck(t) \/ SetResultWriteResult(t)
        \/ SetResultWriteStatus(t) \/ SetResultExit(t)
        \/ \E error_message \in ErrorMessages : SetErrorAcquire(t, error_message)
        \/ SetErrorCheck(t) \/ SetErrorWriteError(t)
        \/ SetErrorWriteStatus(t) \/ SetErrorExit(t)
        \/ GetStatusAcquire(t) \/ GetStatusCheck(t) \/ GetStatusReadStatus(t)
        \/ GetStatusReadResult(t) \/ GetStatusReadError(t)
        \/ GetStatusElapsed(t) \/ GetStatusReturn(t)
    \/ Tick

SpecCalls == Init /\ [][NextCalls]_vars

(***************************************************************************)
(* What the claims speak about.                                            *)
(***************************************************************************)
\* the statements of the three completion calls that run inside the lock
CompletionPcs ==
    { "update_status_check", "update_status_write", "update_status_skip",
      "update_status_exit",
      "set_result_check", "set_result_result", "set_result_status",
      "set_result_skip", "set_result_exit",
      "set_error_check", "set_error_error", "set_error_status",
      "set_error_skip", "set_error_exit" }
CreatePcs == { "create_uuid", "create_assign", "create_return" }

\* the three Request fields a snapshot reports
Fields(s) == << s.status, s.result, s.error >>
\* what a snapshot of request r (or of no request) has to report
FieldsOf(r) ==
    IF r = None THEN Fields(NoneStatus) ELSE << r.status, r.result, r.error >>

\* thread t is about to return a snapshot to its caller
Returning(t) == pc[t] = "get_status_return"

\* the mutating call that acquired the lock last has left its `with` block
LastDone(name) == lastOp.op = name /\ lastOp.done

(***************************************************************************)
(* C1: after any sequence of Tracker operations whose last operation is    *)
(* create(), the current Request carries the id that create() returned,    *)
(* has status PROCESSING and null result and error, and a snapshot shows   *)
(* exactly that: nothing of an earlier Request is visible.                 *)
(***************************************************************************)
C1_LastCreateIsCurrent ==
    LastDone("create") =>
        /\ current_request # None
        /\ Some(current_request.id) = lastOp.ret
        /\ current_request.status = "PROCESSING"
        /\ current_request.result = None
        /\ current_request.error = None
        /\ \A t \in Threads : Returning(t) =>
               Fields(status_info[t]) = << "PROCESSING", None, None >>

\* a second create() has replaced the first Request and a snapshot of the new
\* Request is being returned
C1_Witness ==
    /\ LastDone("create")
    /\ lastOp.ret = Some(2)
    /\ \E t \in Threads : Returning(t)

(***************************************************************************)
(* C2: concurrent create() calls all return, each with an id no other call *)
(* returned, and once they have all returned the one current Request is    *)
(* that of the create() that acquired the lock last.                       *)
(***************************************************************************)
C2_ConcurrentCreates ==
    /\ \A t \in Threads : pc[t] # "raised"
    /\ \A t \in Threads :
           pc[t] = "create_return" => request_id[t] \notin issued
    /\ (LastDone("create") /\ \A t \in Threads : pc[t] \notin CreatePcs) =>
           /\ current_request # None
           /\ Some(current_request.id) = lastOp.ret

\* two creates have returned, the later one on thread 2, and no call is
\* running
C2_Witness ==
    /\ LastDone("create")
    /\ lastOp.thread = 2
    /\ issued = {1, 2}
    /\ current_request # None
    /\ current_request.id = 2
    /\ \A t \in Threads : pc[t] = "idle"

(***************************************************************************)
(* C3: a snapshot is never taken of a partially updated Request: what      *)
(* get_current_status returns is the Request as the last whole operation   *)
(* left it.  After a set_result that snapshot has the result together with *)
(* COMPLETED, after a set_error the message together with ERROR, and after *)
(* a create PROCESSING with no field of the replaced Request.              *)
(***************************************************************************)
C3_SnapshotIsWhole ==
    \A t \in Threads : Returning(t) =>
        /\ Fields(status_info[t]) = FieldsOf(committed)
        /\ (lastOp.op = "set_result" /\ lastOp.applied) =>
               /\ status_info[t].status = "COMPLETED"
               /\ status_info[t].result = lastOp.arg
        /\ (lastOp.op = "set_error" /\ lastOp.applied) =>
               /\ status_info[t].status = "ERROR"
               /\ status_info[t].error = lastOp.arg
        /\ lastOp.op = "create" =>
               Fields(status_info[t]) = << "PROCESSING", None, None >>

\* a snapshot taken right after a set_result is being returned
C3_Witness ==
    \E t \in Threads :
        /\ Returning(t)
        /\ lastOp.op = "set_result" /\ lastOp.applied
        /\ status_info[t].status = "COMPLETED"

(***************************************************************************)
(* C4: once a Request's status is COMPLETED or ERROR, no later completion  *)
(* (a statement of set_result or set_error) changes that Request's status, *)
(* result or error.                                                        *)
(***************************************************************************)
C4_CompletedOnce ==
    [][ ( /\ current_request # None
          /\ current_request.status \in {"COMPLETED", "ERROR"}
          /\ \E t \in Threads :
                 /\ pc[t] \in { "set_result_result", "set_result_status",
                                "set_error_error", "set_error_status" }
                 /\ pc'[t] # pc[t] )
        => current_request' = current_request ]_vars

(***************************************************************************)
(* C5: between operations and in every snapshot returned, result is        *)
(* non-null only when the status is COMPLETED and error is non-null only   *)
(* when the status is ERROR.                                               *)
(***************************************************************************)
C5_FieldsMatchStatus ==
    /\ (lock = NoThread /\ current_request # None) =>
           /\ current_request.result # None =>
                  current_request.status = "COMPLETED"
           /\ current_request.error # None =>
                  current_request.status = "ERROR"
    /\ \A t \in Threads : Returning(t) =>
           /\ status_info[t].result # None =>
                  status_info[t].status = "COMPLETED"
           /\ status_info[t].error # None =>
                  status_info[t].status = "ERROR"

(***************************************************************************)
(* C6: set_result(R) on an existing current Request leaves it COMPLETED    *)
(* with result R whatever its status was, and the next snapshot returns    *)
(* COMPLETED with result R.                                                *)
(***************************************************************************)
C6_SetResultWins ==
    (LastDone("set_result") /\ lastOp.applied) =>
        /\ current_request # None
        /\ current_request.status = "COMPLETED"
        /\ current_request.result = lastOp.arg
        /\ \A t \in Threads : Returning(t) =>
               /\ status_info[t].status = "COMPLETED"
               /\ status_info[t].result = lastOp.arg

\* set_result has overwritten a Request that had failed before
C6_Witness ==
    /\ LastDone("set_result") /\ lastOp.applied
    /\ current_request # None
    /\ current_request.error # None
    /\ current_request.status = "COMPLETED"

(***************************************************************************)
(* C7: set_error(m) on an existing current Request leaves it ERROR with    *)
(* error m, and the next snapshot returns ERROR with error m.              *)
(***************************************************************************)
C7_SetErrorRecorded ==
    (LastDone("set_error") /\ lastOp.applied) =>
        /\ current_request # None
        /\ current_request.status = "ERROR"
        /\ current_request.error = lastOp.arg
        /\ \A t \in Threads : Returning(t) =>
               /\ status_info[t].status = "ERROR"
               /\ status_info[t].error = lastOp.arg

\* create(), set_error("No questions found in image"), and the snapshot is
\* returned
C7_Witness ==
    \E t \in Threads :
        /\ Returning(t)
        /\ LastDone("set_error") /\ lastOp.applied
        /\ lastOp.arg = Some("No questions found in image")
        /\ status_info[t].error = Some("No questions found in image")

(***************************************************************************)
(* C8: with no current Request, every statement of set_result, set_error   *)
(* and update_status leaves the Tracker without a current Request and      *)
(* raises nothing (the call takes the branch around its writes and         *)
(* returns), no call ever raises, and the snapshot after such a call is    *)
(* still NONE.                                                             *)
(***************************************************************************)
C8_NoRequestNoOp ==
    /\ [][ /\ \A t \in Threads :
                 ( /\ current_request = None
                   /\ pc[t] \in CompletionPcs
                   /\ pc'[t] # pc[t] )
                 => /\ current_request' = None
                    /\ pc'[t] \in { "update_status_skip", "set_result_skip",
                                    "set_error_skip", "idle" }
           /\ \A u \in Threads : pc'[u] # "raised" ]_vars
    /\ [](\A t \in Threads :
              ( /\ Returning(t)
                /\ lastOp.op \in {"update_status", "set_result", "set_error"}
                /\ ~lastOp.applied )
              => status_info[t] = NoneStatus)

\* after a clear(), set_error has returned without finding a Request
C8_Witness ==
    /\ LastDone("set_error") /\ ~lastOp.applied
    /\ issued # {}
    /\ current_request = None
    /\ \A t \in Threads : pc[t] = "idle"

(***************************************************************************)
(* C9: whenever no current Request exists - before any create(), or after  *)
(* clear() - the snapshot is status NONE with null result, error and       *)
(* elapsed_time.                                                           *)
(***************************************************************************)
C9_NoneSnapshot ==
    /\ (issued = {} /\ \A t \in Threads : pc[t] \notin CreatePcs) =>
           current_request = None
    /\ LastDone("clear") => current_request = None
    /\ \A t \in Threads :
           (Returning(t) /\ (current_request = None \/ LastDone("clear"))) =>
               status_info[t] = NoneStatus

\* a snapshot taken after create() and clear() is being returned
C9_Witness ==
    \E t \in Threads :
        /\ Returning(t)
        /\ LastDone("clear")
        /\ issued # {}

(***************************************************************************)
(* C10: in every snapshot, elapsed_time is non-null if and only if the     *)
(* status is PROCESSING, and it is then a time elapsed since created_at.   *)
(***************************************************************************)
C10_ElapsedIffProcessing ==
    \A t \in Threads : Returning(t) =>
        /\ status_info[t].elapsed_time # None
               <=> status_info[t].status = "PROCESSING"
        /\ status_info[t].status = "PROCESSING" =>
               /\ current_request # None
               /\ status_info[t].elapsed_time[1] \in
                      0..get_elapsed_time(current_request)

\* a snapshot of a Request that has been PROCESSING for one tick
C10_Witness ==
    \E t \in Threads :
        /\ Returning(t)
        /\ status_info[t].status = "PROCESSING"
        /\ status_info[t].elapsed_time = Some(1)

(***************************************************************************)
(* Part 2 - Async Task Orchestrator (src/src/main.py) with the analysis    *)
(* client it calls (src/src/gemini_client.py).                             *)
(*                                                                         *)
(* The input-hook threads run on_capture_hotkey and stop(), the pool       *)
(* threads run _process_screenshot_async and the done-callbacks.  A call   *)
(* of a RequestManager method is one step here: Part 1 shows that the      *)
(* methods exclude each other under self.lock.                             *)
(***************************************************************************)

\* a Python exception object: its class and str(e)
Exc(type, msg) == [type |-> type, msg |-> msg]

\* the classes `cls` is derived from, itself included
Bases(cls) ==
    CASE cls = "JSONDecodeError" ->
            { "JSONDecodeError", "ValueError", "Exception", "BaseException" }
      [] cls = "SystemExit" -> { "SystemExit", "BaseException" }
      [] OTHER -> { cls, "Exception", "BaseException" }

\* isinstance(e, cls), what an `except cls` clause tests
IsInstance(e, cls) == cls \in Bases(e.type)

\* the two ways a call ends
Returned(value) == [raised |-> FALSE, value |-> value]
Raised(exc) == [raised |-> TRUE, exc |-> exc]

\* entries of the "questions" array of a reply: a key that is absent is None
QData(number, question, answer) ==
    [number |-> number, question |-> question, answer |-> answer]
Q1 == QData(Some("1"), Some("2+2?"), Some("A"))
Q2 == QData(Some("2"), Some("3+3?"), Some("B"))
QNoAnswer == QData(Some("3"), Some("4+4?"), None)

\* the text of a reply, by what json.loads makes of it: not JSON at all, an
\* object without "questions", one whose "questions" is no array, or one
\* with an array of entries
NotJson == [json |-> FALSE]
JsonObject(questions) == [json |-> TRUE, questions |-> questions]
Replies ==
    { NotJson,
      JsonObject(<<"missing">>),
      JsonObject(<<"scalar">>),
      JsonObject(<<"list", <<>> >>),
      JsonObject(<<"list", <<QNoAnswer>> >>),
      JsonObject(<<"list", <<Q1>> >>),
      JsonObject(<<"list", <<QNoAnswer, Q2>> >>) }

\* the replies the analysis service gives in the runs of the application
ServiceReplies ==
    { NotJson,
      JsonObject(<<"list", <<QNoAnswer>> >>),
      JsonObject(<<"list", <<Q1>> >>) }

\* gemini_client.py: the loop of parse_response over data["questions"]
RECURSIVE ParseQuestions(_)
ParseQuestions(q_list) ==
    IF q_list = <<>> THEN <<>>
    ELSE LET q_data == Head(q_list)
             rest == ParseQuestions(Tail(q_list))
         IN  IF \/ q_data.number = None
                \/ q_data.question = None
                \/ q_data.answer = None
                THEN rest
                ELSE <<QuizQuestion(q_data.number[1], q_data.answer[1])>>
                         \o rest

\* gemini_client.py: the body of the try statement of parse_response
ParseBody(response_text) ==
    IF ~response_text.json
        THEN Raised(Exc("JSONDecodeError", "Expecting value"))
    ELSE IF response_text.questions[1] = "missing"
        THEN Raised(Exc("ValueError", "Response missing 'questions' field"))
    ELSE IF response_text.questions[1] # "list"
        THEN Raised(Exc("ValueError", "'questions' field must be array"))
    ELSE LET questions == ParseQuestions(response_text.questions[2])
         IN  IF questions = <<>>
                 THEN Raised(Exc("NoQuestionsFoundError",
                                 "No valid questions found in response"))
                 ELSE Returned(QuizResult(questions))

\* gemini_client.py: parse_response, the try body under its except clauses
parse_response(response_text) ==
    LET body == ParseBody(response_text)
    IN  IF ~body.raised THEN body
        ELSE IF IsInstance(body.exc, "JSONDecodeError")
            THEN Raised(Exc("ValueError",
                            "Response not valid JSON: " \o body.exc.msg))
        ELSE IF IsInstance(body.exc, "Exception")
            THEN Raised(Exc("ValueError",
                            "Error parsing response: " \o body.exc.msg))
        ELSE body

\* what client.models.generate_content may do: answer in time with a text,
\* answer after the timeout, or raise
Behaviour(kind, text, exc) == [kind |-> kind, text |-> text, exc |-> exc]
Behaviours ==
    { Behaviour("reply", text, None) : text \in ServiceReplies }
        \cup { Behaviour("late", JsonObject(<<"list", <<Q1>> >>), None),
               Behaviour("raises", None, Exc("Exception", "503 UNAVAILABLE")),
               Behaviour("raises", None, Exc("SystemExit", "0")) }

\* gemini_client.py: the body of the try statement of analyze_quiz
AnalyzeBody(behaviour) ==
    CASE behaviour.kind = "raises" -> Raised(behaviour.exc)
      [] behaviour.kind = "late" ->
            Raised(Exc("TimeoutError", "API not responding within 30 seconds"))
      [] OTHER -> parse_response(behaviour.text)

\* gemini_client.py: analyze_quiz, the try body under its except clauses
analyze_quiz(behaviour) ==
    LET body == AnalyzeBody(behaviour)
    IN  IF ~body.raised THEN body
        ELSE IF IsInstance(body.exc, "NoQuestionsFoundError") THEN body
        ELSE IF IsInstance(body.exc, "ValueError") THEN body
        ELSE IF IsInstance(body.exc, "TimeoutError") THEN body
        ELSE IF IsInstance(body.exc, "Exception")
            THEN Raised(Exc("Exception",
                            "Error calling API: " \o body.exc.msg))
        ELSE body

\* a task body without the clause for ValueError
TaskCallNoValueError(outcome) ==
    IF ~outcome.raised THEN Call("set_result", outcome.value)
    ELSE IF IsInstance(outcome.exc, "NoQuestionsFoundError")
        THEN Call("set_error", "No questions found in image")
    ELSE IF IsInstance(outcome.exc, "TimeoutError")
        THEN Call("set_error", "Timeout: API not responding")
    ELSE IF IsInstance(outcome.exc, "Exception")
        THEN Call("set_error", "Processing error: " \o outcome.exc.msg)
    ELSE NoCall

\* main.py: _process_screenshot_async, the call it makes on the Tracker for
\* each way analyze_quiz ends (through _on_api_success or _on_api_error); an
\* exception no clause catches leaves the task without a call
TaskCall(outcome) ==
    IF ~outcome.raised THEN Call("set_result", outcome.value)
    ELSE IF IsInstance(outcome.exc, "NoQuestionsFoundError")
        THEN Call("set_error", "No questions found in image")
    ELSE IF IsInstance(outcome.exc, "TimeoutError")
        THEN Call("set_error", "Timeout: API not responding")
    ELSE IF IsInstance(outcome.exc, "ValueError")
        THEN Call("set_error", "Data analysis error: " \o outcome.exc.msg)
    ELSE IF IsInstance(outcome.exc, "Exception")
        THEN Call("set_error", "Processing error: " \o outcome.exc.msg)
    ELSE NoCall

\* request_manager.py: what the whole of set_result leaves in current_request
set_result(current, result) ==
    IF current # None
       THEN [current EXCEPT !.result = Some(result), !.status = "COMPLETED"]
       ELSE current

\* request_manager.py: what the whole of set_error leaves in current_request
set_error(current, error_message) ==
    IF current # None
       THEN [current EXCEPT !.error = Some(error_message), !.status = "ERROR"]
       ELSE current

\* current_request after the call `call`
Apply(current, call) ==
    CASE call.method = "set_result" -> set_result(current, call.arg)
      [] call.method = "set_error" -> set_error(current, call.arg)
      [] OTHER -> current

\* what a callback of the application works on besides its own locals
Shared == [request |-> current_request, active |-> _active_futures,
           log |-> log]
Commit(st) ==
    /\ current_request' = st.request
    /\ _active_futures' = st.active
    /\ log' = st.log

\* callbacks that pass the id of their own request and a Tracker that drops
\* the call when another Request is current
UpdateChecksId(st, rid, by, call) ==
    IF call.method = "none" THEN st
    ELSE [st EXCEPT !.request = IF @ # None /\ @.id = rid
                                    THEN Apply(@, call) ELSE @,
                    !.log.updates[rid] = @ + 1,
                    !.log.last = [rid |-> rid, by |-> by, call |-> call]]

\* the Tracker is called on behalf of request rid by `by`: the task body,
\* the completion handler or the capture handler
Update(st, rid, by, call) ==
    IF call.method = "none" THEN st
    ELSE [st EXCEPT !.request = Apply(@, call),
                    !.log.updates[rid] = @ + 1,
                    !.log.last = [rid |-> rid, by |-> by, call |-> call]]

\* a completion handler that only cleans up
HandleThreadCompletionCleanupOnly(st, rid, f) ==
    IF f.state = "CANCELLED"
       THEN [st EXCEPT !.log.completion[rid] = Append(@, "raised")]
       ELSE [st EXCEPT !.active = @ \ { rid },
                       !.log.completion[rid] = Append(@, "removed")]

\* main.py: _handle_thread_completion, run as done-callback of the Future f
\* of request rid.  future.exception() raises CancelledError on a cancelled
\* Future; the handler's `except Exception` catches it, past the cleanup.
HandleThreadCompletion(st, rid, f) ==
    IF f.state = "CANCELLED"
       THEN [st EXCEPT !.log.completion[rid] = Append(@, "raised")]
       ELSE LET call == IF f.exception # None
                           THEN Call("set_error",
                                     "Unknown error: " \o f.exception[1].msg)
                           ELSE NoCall
            IN  [Update(st, rid, "completion", call) EXCEPT
                    !.active = @ \ { rid },
                    !.log.completion[rid] = Append(@, "removed")]

\* Future._invoke_callbacks: the done-callback runs if it is registered
InvokeCallbacks(st, rid, f) ==
    IF f.callback THEN HandleThreadCompletion(st, rid, f) ELSE st

\* the hook thread h moves on to `label`, or returns from its callback
HookGoto(h, label) == hook' = [hook EXCEPT ![h].pc = label]
HookReturn(h) == hook' = [hook EXCEPT ![h] = IdleHook]

\* the captures that have been accepted and have not yet created a Request
Capturing ==
    { h \in Hooks : hook[h].pc \in { "capture_stamp", "capture_create" } }

(***************************************************************************)
(* start()                                                                 *)
(***************************************************************************)
Start ==
    /\ listener = "created"
    /\ ~_running
    /\ _running' = TRUE
    /\ listener' = "started"
    /\ UNCHANGED << current_request, nextId, clock, trackerThreads,
                    _last_capture_time, _active_futures, _shutdown,
                    _work_queue, future, hook, worker, log >>

(***************************************************************************)
(* on_capture_hotkey                                                       *)
(***************************************************************************)
\* current_time = time.time(); the cooldown test on _last_capture_time
CaptureCooldown(h) ==
    /\ listener = "started"
    /\ hook[h].pc = "idle"
    /\ nextId + Cardinality(Capturing) <= MaxRequests
    /\ \E now \in 0..MaxClock :
        /\ Now(now)
        /\ IF time(now) - _last_capture_time < _capture_cooldown
              THEN HookReturn(h)
              ELSE hook' = [hook EXCEPT ![h].pc = "capture_stamp",
                                        ![h].current_time = time(now)]
    /\ UNCHANGED << current_request, nextId, trackerThreads,
                    _running, listener, _last_capture_time, _active_futures,
                    _shutdown, _work_queue, future, worker, log >>

\* what capture_screen() followed by save_to_memory() gives
Images == { "no screenshot", "no bytes", "bytes" }

\* a handler that calls create_request() before it has the image
CaptureStampCreatesFirst(h, image) ==
    /\ hook[h].pc = "capture_stamp"
    /\ _last_capture_time' = hook[h].current_time
    /\ current_request' = Request(nextId, "PROCESSING", clock, None, None)
    /\ nextId' = nextId + 1
    /\ IF image = "bytes"
          THEN hook' = [hook EXCEPT ![h].pc = "capture_submit",
                                    ![h].current_time = 0,
                                    ![h].request_id = nextId]
          ELSE HookReturn(h)
    /\ UNCHANGED << clock, trackerThreads,
                    _running, listener, _active_futures,
                    _shutdown, _work_queue, future, worker, log >>

\* self._last_capture_time = current_time; then capture_screen() and
\* save_to_memory(), each of which may give None, which ends the callback
CaptureStamp(h, image) ==
    /\ hook[h].pc = "capture_stamp"
    /\ _last_capture_time' = hook[h].current_time
    /\ IF image = "bytes"
          THEN hook' = [hook EXCEPT ![h].pc = "capture_create",
                                    ![h].current_time = 0]
          ELSE HookReturn(h)
    /\ UNCHANGED << current_request, nextId, clock, trackerThreads,
                    _running, listener, _active_futures,
                    _shutdown, _work_queue, future, worker, log >>

\* request_id = self.request_manager.create_request()
CaptureCreate(h) ==
    /\ hook[h].pc = "capture_create"
    /\ nextId <= MaxRequests
    /\ \E now \in 0..MaxClock :
        /\ Now(now)
        /\ current_request' = Request(nextId, "PROCESSING", now, None, None)
    /\ nextId' = nextId + 1
    /\ hook' = [hook EXCEPT ![h].pc = "capture_submit",
                            ![h].request_id = nextId]
    /\ UNCHANGED << trackerThreads,
                    _running, listener, _last_capture_time, _active_futures,
                    _shutdown, _work_queue, future, worker, log >>

\* ThreadPoolExecutor.submit on a pool that has been shut down
SubmitError == Exc("RuntimeError", "cannot schedule new futures after shutdown")

\* a handler whose submit is not inside a try statement: the RuntimeError
\* of a pool that is shut down reaches the listener thread
CaptureSubmitNoExcept(h) ==
    /\ hook[h].pc = "capture_submit"
    /\ IF _shutdown
          THEN /\ HookGoto(h, "raised")
               /\ UNCHANGED << _work_queue, future >>
          ELSE /\ future' = [future EXCEPT ![hook[h].request_id] =
                                 Future("PENDING", None, FALSE)]
               /\ _work_queue' = Append(_work_queue, hook[h].request_id)
               /\ HookGoto(h, "capture_track")
    /\ UNCHANGED << current_request, _active_futures, log,
                    nextId, clock, trackerThreads, _running, listener,
                    _last_capture_time, _shutdown, worker >>

\* a handler that calls _process_screenshot_async itself instead of handing
\* it to the pool: the listener thread makes the service call
CaptureSubmitInline(h) ==
    /\ hook[h].pc = "capture_submit"
    /\ IF _shutdown
          THEN /\ Commit(Update(Shared, hook[h].request_id, "capture",
                         Call("set_error",
                              "Screenshot capture error: " \o SubmitError.msg)))
               /\ HookReturn(h)
               /\ UNCHANGED future
          ELSE \E behaviour \in Behaviours :
                 LET rid == hook[h].request_id
                     call == TaskCall(analyze_quiz(behaviour))
                 IN  /\ future' = [future EXCEPT ![rid] =
                                       Future("FINISHED", None, FALSE)]
                     /\ Commit([Update(Shared, rid, "task", call) EXCEPT
                                   !.log.task = [rid |-> rid,
                                                 behaviour |-> Some(behaviour),
                                                 call |-> call]])
                     /\ HookGoto(h, "capture_track")
    /\ UNCHANGED << nextId, clock, trackerThreads, _running, listener,
                    _last_capture_time, _shutdown, _work_queue, worker >>

\* future = self._thread_pool.submit(...): a pending Future joins the work
\* queue.  On a pool that is shut down submit raises, and the handler's
\* except clause records the error on the Tracker and returns.
CaptureSubmit(h) ==
    /\ hook[h].pc = "capture_submit"
    /\ IF _shutdown
          THEN /\ Commit(Update(Shared, hook[h].request_id, "capture",
                         Call("set_error",
                              "Screenshot capture error: " \o SubmitError.msg)))
               /\ HookReturn(h)
               /\ UNCHANGED << _work_queue, future >>
          ELSE /\ future' = [future EXCEPT ![hook[h].request_id] =
                                 Future("PENDING", None, FALSE)]
               /\ _work_queue' = Append(_work_queue, hook[h].request_id)
               /\ HookGoto(h, "capture_track")
               /\ UNCHANGED << current_request, _active_futures, log >>
    /\ UNCHANGED << nextId, clock, trackerThreads, _running, listener,
                    _last_capture_time, _shutdown, worker >>

\* self._active_futures[request_id] = future
CaptureTrack(h) ==
    /\ hook[h].pc = "capture_track"
    /\ _active_futures' = _active_futures \cup { hook[h].request_id }
    /\ HookGoto(h, "capture_callback")
    /\ UNCHANGED << current_request, nextId, clock, trackerThreads,
                    _running, listener, _last_capture_time,
                    _shutdown, _work_queue, future, worker, log >>

\* future.add_done_callback(...): on a Future that is done the callback runs
\* at once, in the calling thread
CaptureCallback(h) ==
    /\ hook[h].pc = "capture_callback"
    /\ LET rid == hook[h].request_id
       IN  IF done(future[rid])
              THEN /\ Commit(HandleThreadCompletion(Shared, rid, future[rid]))
                   /\ UNCHANGED future
              ELSE /\ future' = [future EXCEPT ![rid].callback = TRUE]
                   /\ UNCHANGED << current_request, _active_futures, log >>
    /\ HookReturn(h)
    /\ UNCHANGED << nextId, clock, trackerThreads, _running, listener,
                    _last_capture_time, _shutdown, _work_queue, worker >>

(***************************************************************************)
(* The pool threads: _process_screenshot_async                             *)
(***************************************************************************)
\* a pool thread takes the next work item; an item whose Future has been
\* cancelled is dropped, any other starts running.  The pool's threads are
\* alike: of those that wait, the first is taken to be the one that wakes.
WorkerGet(w) ==
    /\ worker[w].pc = "idle"
    /\ \A other \in Workers : other < w => worker[other].pc # "idle"
    /\ _work_queue # <<>>
    /\ _work_queue' = Tail(_work_queue)
    /\ LET rid == Head(_work_queue)
       IN  IF future[rid].state = "CANCELLED"
              THEN UNCHANGED << future, worker >>
              ELSE /\ future' = [future EXCEPT ![rid].state = "RUNNING"]
                   /\ worker' = [worker EXCEPT ![w] =
                          [pc |-> "analyze", request_id |-> rid,
                           outcome |-> None]]
    /\ UNCHANGED << current_request, nextId, clock, trackerThreads,
                    _running, listener, _last_capture_time, _active_futures,
                    _shutdown, hook, log >>

\* result = self.ai_client.analyze_quiz(image_bytes) returns or raises; the
\* task calls _on_api_success, or the _on_api_error of the except clause
\* that matches, and is left: the Future finishes, with the exception that
\* escaped the body if there is one, and runs its done-callback
TaskRun(w, behaviour) ==
    /\ worker[w].pc = "analyze"
    /\ LET rid == worker[w].request_id
           outcome == analyze_quiz(behaviour)
           call == TaskCall(outcome)
           f == Future("FINISHED",
                       IF call.method = "none" THEN Some(outcome.exc) ELSE None,
                       future[rid].callback)
       IN  /\ future' = [future EXCEPT ![rid] = f]
           /\ Commit(InvokeCallbacks(
                  [Update(Shared, rid, "task", call) EXCEPT
                      !.log.task = [rid |-> rid, behaviour |-> Some(behaviour),
                                    call |-> call]],
                  rid, f))
    /\ worker' = [worker EXCEPT ![w] = IdleWorker]
    /\ UNCHANGED << nextId, clock, trackerThreads, _running, listener,
                    _last_capture_time, _shutdown, _work_queue, hook >>

(***************************************************************************)
(* stop(), called by on_exit_hotkey on the keyboard listener's thread      *)
(***************************************************************************)
\* if not self._running: return; self._running = False; then
\* self.hotkey_listener.stop(): no further event is delivered
StopEnter(h) ==
    /\ listener = "started"
    /\ hook[h].pc = "idle"
    /\ IF _running
          THEN /\ _running' = FALSE
               /\ listener' = "stopped"
               /\ HookGoto(h, "stop_shutdown")
          ELSE UNCHANGED << _running, listener >> /\ HookReturn(h)
    /\ UNCHANGED << current_request, nextId, clock, trackerThreads,
                    _last_capture_time, _active_futures,
                    _shutdown, _work_queue, future, worker, log >>

\* self._thread_pool.shutdown(wait=False): the work queue keeps its items;
\* then list(self._active_futures.items())
StopShutdown(h) ==
    /\ hook[h].pc = "stop_shutdown"
    /\ _shutdown' = TRUE
    /\ hook' = [hook EXCEPT ![h].pc = "stop_cancel",
                            ![h].items = _active_futures]
    /\ UNCHANGED << current_request, nextId, clock, trackerThreads,
                    _running, listener, _last_capture_time, _active_futures,
                    _work_queue, future, worker, log >>

\* one round of the loop: if not future.done(): future.cancel().  Only a
\* pending Future can be cancelled; it then runs its done-callback.  The
\* rounds act on different Futures, so one order stands for all.
StopCancel(h, rid) ==
    /\ hook[h].pc = "stop_cancel"
    /\ rid \in hook[h].items
    /\ \A other \in hook[h].items : rid <= other
    /\ hook' = [hook EXCEPT ![h].items = @ \ { rid }]
    /\ IF future[rid].state = "PENDING"
          THEN LET f == Future("CANCELLED", None, future[rid].callback)
               IN  /\ future' = [future EXCEPT ![rid] = f]
                   /\ Commit(InvokeCallbacks(Shared, rid, f))
          ELSE UNCHANGED << future, current_request, _active_futures, log >>
    /\ UNCHANGED << nextId, clock, trackerThreads, _running, listener,
                    _last_capture_time, _shutdown, _work_queue, worker >>

\* the loop is over; sys.exit(0) in the finally clause ends the thread
StopExit(h) ==
    /\ hook[h].pc = "stop_cancel"
    /\ hook[h].items = {}
    /\ HookGoto(h, "exited")
    /\ UNCHANGED << current_request, nextId, clock, trackerThreads,
                    _running, listener, _last_capture_time, _active_futures,
                    _shutdown, _work_queue, future, worker, log >>

(***************************************************************************)
(* The application: the hook threads, the pool threads and the clock.      *)
(***************************************************************************)
NextApp ==
    \/ Start
    \/ \E h \in Hooks :
        \/ CaptureCooldown(h)
        \/ \E image \in Images : CaptureStamp(h, image)
        \/ CaptureCreate(h) \/ CaptureSubmit(h) \/ CaptureTrack(h)
        \/ CaptureCallback(h)
        \/ StopShutdown(h)
        \/ \E rid \in RequestIds : StopCancel(h, rid)
        \/ StopExit(h)
    \/ StopEnter("keyboard")
    \/ \E w \in Workers :
        \/ WorkerGet(w)
        \/ \E behaviour \in Behaviours : TaskRun(w, behaviour)

SpecApp == Init /\ [][NextApp]_vars

(***************************************************************************)
(* Claims about the Orchestrator.                                          *)
(***************************************************************************)
\* s.startswith(prefix)
StartsWith(s, prefix) ==
    Len(s) >= Len(prefix) /\ SubSeq(s, 1, Len(prefix)) = prefix
\* sub in s
Contains(sub, s) ==
    \E i \in 1..(Len(s) - Len(sub) + 1) : SubSeq(s, i, i + Len(sub) - 1) = sub

\* the five ways a service call can end for the task body
OutcomeKind(outcome) ==
    IF ~outcome.raised THEN "success"
    ELSE IF outcome.exc.type = "NoQuestionsFoundError" THEN "no questions"
    ELSE IF outcome.exc.type = "TimeoutError" THEN "timeout"
    ELSE IF outcome.exc.type \in { "ValueError", "JSONDecodeError" }
        THEN "value error"
    ELSE IF outcome.exc.type # "SystemExit" THEN "other"
    ELSE "escaped"

\* the way the service call ended, read off the Request it was recorded on
RecordedKind(req) ==
    IF req.status = "COMPLETED" THEN "success"
    ELSE IF req.status # "ERROR" THEN "nothing"
    ELSE IF req.error = Some("No questions found in image")
        THEN "no questions"
    ELSE IF req.error = Some("Timeout: API not responding") THEN "timeout"
    ELSE IF StartsWith(req.error[1], "Data analysis error: ")
        THEN "value error"
    ELSE IF StartsWith(req.error[1], "Processing error: ") THEN "other"
    ELSE "nothing"

\* outcomes of every kind: those analyze_quiz has for the replies, and a
\* NoQuestionsFoundError that reaches the task body
Outcomes ==
    { analyze_quiz(Behaviour("reply", text, None)) : text \in Replies }
        \cup { analyze_quiz(behaviour) : behaviour \in Behaviours }
        \cup { Raised(Exc("NoQuestionsFoundError",
                          "No valid questions found in response")) }

\* the tasks that have run to their end without an escaped exception
Finished ==
    { rid \in RequestIds : /\ future[rid].state = "FINISHED"
                           /\ future[rid].exception = None }

\* C11: a task makes exactly one call on the Tracker, the one that belongs
\* to the way its service call ended (set_result on success, set_error with
\* the fixed message for NoQuestionsFoundError and for TimeoutError, with
\* the prefix "Data analysis error: " for ValueError and "Processing
\* error: " for any other exception); from the Request the call was applied
\* to, the way the service call ended can be read off again, and every
\* failure leaves status ERROR.
C11_OneUpdatePerOutcome ==
    /\ \A rid \in Finished : log.updates[rid] = 1
    /\ \A rid \in RequestIds :
           future[rid].state \in { "PENDING", "RUNNING", "CANCELLED" }
               => log.updates[rid] = 0
    /\ log.task.rid # 0 =>
           LET outcome == analyze_quiz(log.task.behaviour[1])
           IN  OutcomeKind(outcome) # "escaped" =>
                   RecordedKind(Apply(Request(log.task.rid, "PROCESSING", 0,
                                              None, None), log.task.call))
                       = OutcomeKind(outcome)
    /\ \A outcome \in Outcomes :
           OutcomeKind(outcome) # "escaped" =>
               LET req == Apply(Request(1, "PROCESSING", 0, None, None),
                                TaskCall(outcome))
               IN  /\ RecordedKind(req) = OutcomeKind(outcome)
                   /\ outcome.raised => req.status = "ERROR"
                   /\ ~outcome.raised => req.result = Some(outcome.value)

\* a task whose service call raised ValueError has finished, and the Request
\* carries its "Data analysis error: " message
C11_Witness ==
    /\ log.task.rid \in Finished
    /\ log.last.by = "task"
    /\ log.last.rid = log.task.rid
    /\ current_request.status = "ERROR"
    /\ current_request.error = Some(log.task.call.arg)
    /\ StartsWith(current_request.error[1],
                  "Data analysis error: Response not valid JSON: ")

\* main.py: on_check_hotkey, the text shown for status ERROR
error_text(error_message) ==
    IF Contains("No questions found", error_message)
       THEN "No questions found in image\nTry capturing again with Alt+Z"
       ELSE "Error: " \o error_message

\* the service answered in time with a text that parses to no valid question
ZeroValid(behaviour) ==
    /\ behaviour.kind = "reply"
    /\ behaviour.text.json
    /\ behaviour.text.questions[1] = "list"
    /\ ParseQuestions(behaviour.text.questions[2]) = <<>>

\* C12: when the reply of the service parses to zero valid questions, the
\* client signals NoQuestionsFoundError, the task records the message "No
\* questions found in image", and the results toggle shows the guidance
\* text for that message.
C12_NoQuestionsIsSoft ==
    (log.task.rid # 0 /\ ZeroValid(log.task.behaviour[1])) =>
        /\ analyze_quiz(log.task.behaviour[1]) =
               Raised(Exc("NoQuestionsFoundError",
                          "No valid questions found in response"))
        /\ log.task.call = Call("set_error", "No questions found in image")
        /\ error_text(log.task.call.arg) =
               "No questions found in image\nTry capturing again with Alt+Z"

\* the step in which on_capture_hotkey returns because capture_screen() or
\* save_to_memory() gave None
ImageFailed(h) == hook[h].pc = "capture_stamp" /\ hook'[h].pc = "idle"

\* what holds of the failures that are exceptions: none is in a listener
\* thread; a Request whose submit failed has the handler's set_error; a
\* task whose service call raised an Exception has made a set_error call
ExceptionsRecorded ==
    /\ \A h \in Hooks : hook[h].pc # "raised"
    /\ \A rid \in RequestIds :
           rid < nextId =>
               \/ \E h \in Hooks : /\ hook[h].pc = "capture_submit"
                                   /\ hook[h].request_id = rid
               \/ future[rid].state # "NONE"
               \/ log.updates[rid] = 1
    /\ log.last.by = "capture" =>
           /\ log.last.call.method = "set_error"
           /\ StartsWith(log.last.call.arg, "Screenshot capture error: ")
    /\ log.task.rid # 0 =>
           (OutcomeKind(analyze_quiz(log.task.behaviour[1]))
                \in { "no questions", "timeout", "value error", "other" }
              => log.task.call.method = "set_error")

Quiescent ==
    /\ \A rid \in RequestIds : future[rid].state \notin { "PENDING", "RUNNING" }
    /\ \A h \in Hooks : hook[h].pc \in { "idle", "stop_shutdown",
                                         "stop_cancel", "exited" }

\* C14: once the completion handler of a task has run - the task having
\* succeeded, failed or been cancelled before it started - its request id
\* is not in _active_futures; so the set is empty whenever no task is
\* pending or executing.
C14_HandledMeansUntracked ==
    /\ \A rid \in RequestIds :
           log.completion[rid] # <<>> => rid \notin _active_futures
    /\ Quiescent => _active_futures = {}

\* the step in which the completion handler of the finished task rid runs
Handled(rid) ==
    /\ log'.completion[rid] # log.completion[rid]
    /\ future'[rid].state = "FINISHED"

\* C15: when the completion handler runs on a finished Future that carries
\* an exception, the Request gets status ERROR and the message "Unknown
\* error: " followed by the text of the exception; when the Future carries
\* none, the handler leaves the Request as it is: as it was before, if the
\* Future had finished earlier, and as the task's own call left it, if the
\* handler runs as the task ends.
C15_SafetyNet ==
    [][\A rid \in RequestIds :
          Handled(rid) =>
              IF future'[rid].exception # None
                 THEN /\ current_request'.status = "ERROR"
                      /\ current_request'.error =
                             Some("Unknown error: "
                                      \o future'[rid].exception[1].msg)
                      /\ current_request'.result = current_request.result
                      /\ log'.last = [rid |-> rid, by |-> "completion",
                                      call |-> log'.last.call]
                 ELSE IF future[rid].state = "FINISHED"
                 THEN current_request' = current_request /\ log'.last = log.last
                 ELSE /\ log'.last.by = "task"
                      /\ log'.last.rid = rid
                      /\ log'.updates[rid] = 1]_vars

\* the completion handler has recorded an exception that escaped a task
C15_Witness ==
    /\ log.last.by = "completion"
    /\ future[log.last.rid].state = "FINISHED"
    /\ future[log.last.rid].exception = Some(Exc("SystemExit", "0"))
    /\ current_request.status = "ERROR"
    /\ current_request.error = Some("Unknown error: 0")

\* stop() has run: its loop over the Futures is over
Stopped == hook["keyboard"].pc = "exited"

\* C16: once the pool is shut down no new task is accepted; once stop() has
\* run, no submitted task is still pending and none starts - a task
\* submitted while stop() was running included; a task that is executing is
\* not cancelled and ends with its call on the Tracker.
C16_StopCancelsPending ==
    /\ [](Stopped => \A rid \in RequestIds : future[rid].state # "PENDING")
    /\ [][\A rid \in RequestIds :
             /\ (_shutdown /\ future[rid].state = "NONE")
                    => future'[rid].state = "NONE"
             /\ (Stopped /\ future[rid].state # "RUNNING")
                    => future'[rid].state # "RUNNING"
             /\ future[rid].state = "RUNNING"
                    => \/ future'[rid].state = "RUNNING"
                       \/ /\ future'[rid].state = "FINISHED"
                          /\ future'[rid].exception = None
                                 => log'.updates[rid] = 1]_vars

\* the tasks whose service call is under way, and the pool threads in it
Executing == { rid \in RequestIds : future[rid].state = "RUNNING" }
Analyzing == { w \in Workers : worker[w].pc = "analyze" }
\* how often rid is in the work queue
Queued(rid) ==
    Cardinality({ i \in 1..Len(_work_queue) : _work_queue[i] = rid })

\* every Request that was created has one task, unless its handler has yet
\* to call submit or submit failed on a pool that was shut down; a task
\* waits in the queue once or runs on one pool thread; no more than
\* max_workers service calls are under way
OneTaskEach ==
    /\ \A rid \in RequestIds :
           rid < nextId =>
               \/ \E h \in Hooks : /\ hook[h].pc = "capture_submit"
                                   /\ hook[h].request_id = rid
               \/ future[rid].state # "NONE"
               \/ _shutdown /\ log.updates[rid] = 1
    /\ \A rid \in RequestIds :
           /\ Queued(rid) = IF future[rid].state = "PENDING" THEN 1
                            ELSE IF future[rid].state = "CANCELLED"
                                THEN Queued(rid)
                            ELSE 0
           /\ Queued(rid) <= 1
           /\ Cardinality({ w \in Analyzing : worker[w].request_id = rid })
                  = IF rid \in Executing THEN 1 ELSE 0
    /\ Cardinality(Executing) <= max_workers

\* C17: every capture that creates a Request submits exactly one task; at
\* most two service calls are under way at any time; a task starts only
\* when fewer than two are under way, so one submitted while two are
\* executing waits until one of them has finished.
C17_OneTaskTwoWorkers ==
    /\ []OneTaskEach
    /\ [][\A rid \in RequestIds :
             (future[rid].state # "RUNNING" /\ future'[rid].state = "RUNNING")
                 => /\ future[rid].state = "PENDING"
                    /\ Cardinality(Executing) < max_workers]_vars

\* two service calls are under way and a third task waits in the queue
C17_Witness ==
    /\ Cardinality(Executing) = max_workers
    /\ \E rid \in RequestIds :
           future[rid].state = "PENDING" /\ Queued(rid) = 1

\* a Request that has left PROCESSING is as the last set_result or set_error
\* call left it, whichever request that call was made for
CarriesLastCall ==
    (current_request # None /\ current_request.status # "PROCESSING") =>
        LET call == log.last.call
        IN  \/ /\ call.method = "set_result"
               /\ current_request.status = "COMPLETED"
               /\ current_request.result = Some(call.arg)
            \/ /\ call.method = "set_error"
               /\ current_request.status = "ERROR"
               /\ current_request.error = Some(call.arg)

\* C18: the completion of a task is applied to the Request that is current
\* when it completes, without comparing request ids, so the Request shows
\* the status and the result or error of the task that completed last, also
\* when that task belongs to an older capture.
C18_LastCompleterWins ==
    /\ []CarriesLastCall
    /\ [][\A rid \in RequestIds :
             log'.updates[rid] # log.updates[rid] =>
                 /\ log'.last.rid = rid
                 /\ current_request' = Apply(current_request, log'.last.call)]_vars

\* the task of an older capture completed after the task of the capture
\* whose Request is current, and the Request carries the older task's outcome
C18_Witness ==
    /\ current_request # None
    /\ log.last.by = "task"
    /\ log.last.rid < current_request.id
    /\ future[current_request.id].state = "FINISHED"
    /\ log.updates[current_request.id] = 1
    /\ current_request.status # "PROCESSING"

\* the part of on_capture_hotkey that follows create(), and the number of
\* statements a handler at `pc` has left
HandlerStep(h) == CaptureSubmit(h) \/ CaptureTrack(h) \/ CaptureCallback(h)
Submitting(h) ==
    hook[h].pc \in { "capture_submit", "capture_track", "capture_callback" }
StepsLeft(at) ==
    CASE at = "capture_submit" -> Cardinality({ "submit", "track", "callback" })
      [] at = "capture_track" -> Cardinality({ "track", "callback" })
      [] at = "capture_callback" -> Cardinality({ "callback" })
      [] OTHER -> Cardinality({})

\* C19: the capture handler does not wait for the analysis.  Past create()
\* its next statement can always be executed, whatever the pool threads and
\* the service do, and each statement brings it nearer to its return, so it
\* returns after at most three statements even if no service call ever
\* returns; while its Future is not done it leaves the Request as it is
\* (PROCESSING unless another completion came in); and a service call is
\* started and ended by steps of pool threads only, never by a step of an
\* input-hook thread.
C19_HandlerDoesNotWait ==
    /\ [](\A h \in Hooks : Submitting(h) => ENABLED HandlerStep(h))
    /\ [][\A h \in Hooks :
             (Submitting(h) /\ hook'[h] # hook[h]) =>
                 /\ StepsLeft(hook'[h].pc) < StepsLeft(hook[h].pc)
                 /\ (_shutdown \/ done(future'[hook[h].request_id])
                        \/ current_request' = current_request)]_vars
    /\ [][(\/ log'.task # log.task
           \/ \E rid \in RequestIds :
                 /\ future'[rid].state # future[rid].state
                 /\ future'[rid].state \in { "RUNNING", "FINISHED" })
              => /\ hook' = hook
                 /\ \E w \in Workers : worker'[w].pc # worker[w].pc]_vars

\* every handler has returned while the task of the latest capture is in
\* the service call and its Request is PROCESSING
C19_Witness ==
    /\ \A h \in Hooks : hook[h].pc = "idle"
    /\ current_request # None
    /\ current_request.status = "PROCESSING"
    /\ future[current_request.id].state = "RUNNING"
    /\ future[current_request.id].callback
    /\ current_request.id \in _active_futures

\* the step in which the cooldown check lets a trigger pass
Triggered(h) == hook[h].pc = "idle" /\ hook'[h].pc = "capture_stamp"

\* C20: when capture_screen() or save_to_memory() gives None, the capture
\* cycle ends before a Request is created.  Neither step of such a cycle,
\* the check that let the trigger pass and the step that found no image,
\* calls create() or submits a task: the Tracker's Request, the ids given
\* out, the Futures, the work queue and the tracking set are after the step
\* what they were before it, and the handler returns holding no request id.
C20_NoImageNoRequest ==
    /\ [](\A h \in Hooks :
             hook[h].pc = "capture_stamp" => hook[h].request_id = 0)
    /\ [][\A h \in Hooks :
             (Triggered(h) \/ ImageFailed(h)) =>
                 /\ UNCHANGED << current_request, nextId, _active_futures,
                                 future, _work_queue >>
                 /\ log'.updates = log.updates
                 /\ ImageFailed(h) => hook'[h] = IdleHook]_vars

\* one capture is in flight, and a later trigger has passed the cooldown
\* check and stamped its time, found no image and returned: there is still
\* the one Request, PROCESSING and tracked
C20_Witness ==
    /\ \A h \in Hooks : hook[h].pc = "idle"
    /\ nextId = 2
    /\ current_request # None
    /\ time(current_request.created_at) < _last_capture_time
    /\ current_request.status = "PROCESSING"
    /\ _active_futures = { current_request.id }

(***************************************************************************)
(* Part 3 - the Debounced Event Dispatcher (src/src/hotkey_listener.py).   *)
(* pynput delivers the events of a listener one after the other on that    *)
(* listener's thread, and the keyboard and the mouse handlers share no     *)
(* attribute, so the handling of one event is one step.  The callbacks are *)
(* those the application passes in; of a callback the dispatcher sees only *)
(* whether it returns or raises.                                           *)
(***************************************************************************)
\* what the dispatcher leaves alone
coreVars == << current_request, lock, pc, locals, nextId, clock, history,
               appVars >>
programVars == << coreVars, relayVars, answersVars, toggle >>

\* a callback returns, raises an Exception, or raises SystemExit, as the
\* exit callback does: QuizAssistantApp.stop ends in sys.exit(0)
CallbackBehaviours == { "returns", "raises", "exits" }
BehavioursOf(invoked) ==
    IF invoked = <<>> THEN { "returns" }
    ELSE IF invoked = << "on_exit_key" >> THEN CallbackBehaviours
    ELSE { "returns", "raises" }
\* handlers without a try statement
EndedNoExcept(invoked, behaviour) ==
    IF invoked # <<>> /\ behaviour \in { "raises", "exits" }
       THEN "escaped" ELSE "returned"
\* the try statement of a handler catches Exception and nothing else
Ended(invoked, behaviour) ==
    IF invoked # <<>> /\ behaviour = "exits" THEN "escaped" ELSE "returned"

\* a call of time.time(): time has moved on, by any amount, since it was
\* read last
ReadTime(now) == now \in ticks..MaxTicks /\ ticks' = now

\* key.char of a KeyCode that has one, else nothing
CharOf(key) ==
    IF key.class = "KeyCode" /\ key.char # None THEN key.char[1] ELSE ""

\* on_key_press reads the time for a character other than the exit
\* character when the modifier is held
ReadsTime(key) == CharOf(key) \notin { "", Grave } /\ alt_pressed

\* a debounce test that also suppresses a press made exactly one cooldown
\* after the last one
PathInclusive(key, t) ==
    IF key.class = "Key"
       THEN IF key \in AltKeys THEN "alt"
            ELSE IF key = Key("delete") THEN "delete"
            ELSE "ignored"
    ELSE IF CharOf(key) = "" THEN "ignored"
    ELSE IF CharOf(key) = Grave THEN "exit"
    ELSE IF ~alt_pressed THEN "ignored"
    ELSE IF t - _last_hotkey_time[lower(CharOf(key))] <= _hotkey_cooldown
        THEN "debounced"
    ELSE "hotkey"

\* an on_key_press that does not look at alt_pressed
PathNoModifier(key, t) ==
    IF key.class = "Key"
       THEN IF key \in AltKeys THEN "alt"
            ELSE IF key = Key("delete") THEN "delete"
            ELSE "ignored"
    ELSE IF CharOf(key) = "" THEN "ignored"
    ELSE IF CharOf(key) = Grave THEN "exit"
    ELSE IF t - _last_hotkey_time[lower(CharOf(key))] < _hotkey_cooldown
        THEN "debounced"
    ELSE "hotkey"

\* an on_key_press whose exit check comes after the test of alt_pressed
PathExitAfterModifier(key, t) ==
    IF key.class = "Key"
       THEN IF key \in AltKeys THEN "alt"
            ELSE IF key = Key("delete") THEN "delete"
            ELSE "ignored"
    ELSE IF CharOf(key) = "" THEN "ignored"
    ELSE IF ~alt_pressed THEN "ignored"
    ELSE IF CharOf(key) = Grave THEN "exit"
    ELSE IF t - _last_hotkey_time[lower(CharOf(key))] < _hotkey_cooldown
        THEN "debounced"
    ELSE "hotkey"

\* the branch on_key_press takes for `key` at time t
Path(key, t) ==
    IF key.class = "Key"
       THEN IF key \in AltKeys THEN "alt"
            ELSE IF key = Key("delete") THEN "delete"
            ELSE "ignored"
    ELSE IF CharOf(key) = "" THEN "ignored"
    ELSE IF CharOf(key) = Grave THEN "exit"
    ELSE IF ~alt_pressed THEN "ignored"
    ELSE IF t - _last_hotkey_time[lower(CharOf(key))] < _hotkey_cooldown
        THEN "debounced"
    ELSE "hotkey"

\* the elif chain over self.hotkeys: the callback of the first action, in
\* the order of the chain, that key_char is bound to
BoundTo(key_char) ==
    { i \in 1..Len(ActionNames) : hotkeys[ActionNames[i]] = key_char }
\* a chain of separate if statements: every action the character is bound
\* to has its callback invoked
DispatchEvery(key_char) ==
    LET RECURSIVE from(_)
        from(i) == IF i > Len(ActionNames) THEN <<>>
                   ELSE (IF i \in BoundTo(key_char)
                            THEN << CallbackOf[ActionNames[i]] >> ELSE <<>>)
                        \o from(i + 1)
    IN  from(1)
Dispatch(key_char) ==
    IF BoundTo(key_char) = {} THEN <<>>
    ELSE LET first == CHOOSE i \in BoundTo(key_char) :
                          \A j \in BoundTo(key_char) : i <= j
         IN  << CallbackOf[ActionNames[first]] >>

\* the callbacks on_key_press invokes on the branch `path`
Invoked(key, path) ==
    IF path = "delete" THEN << "on_clear_logs" >>
    ELSE IF path = "exit" THEN << "on_exit_key" >>
    ELSE IF path = "hotkey" THEN Dispatch(lower(CharOf(key)))
    ELSE <<>>

\* HotkeyListener.__init__: self.hotkeys = self._load_hotkeys()
HotkeyListenerInit(settings) ==
    /\ hotkeys = None
    /\ hotkeys' = _load_hotkeys(settings)
    /\ UNCHANGED << keyboard_listener, mouse_listener, alt_pressed,
                    middle_button_pressed, _last_hotkey_time, ticks, accepted,
                    event, programVars >>

\* HotkeyListener.start: both listeners are created and started
HotkeyListenerStart ==
    /\ hotkeys # None
    /\ keyboard_listener = "none"
    /\ keyboard_listener' = "alive"
    /\ mouse_listener' = "alive"
    /\ UNCHANGED << hotkeys, alt_pressed, middle_button_pressed,
                    _last_hotkey_time, ticks, accepted, event, programVars >>

\* the record of an event of the keyboard listener; `again` says that the
\* event before it was the same, at the same reading of the time
KeyEvent(handler, key, t, invoked, behaviour) ==
    [NoEvent EXCEPT !.handler = handler, !.key = key, !.time = t,
                    !.again = /\ event.handler = handler
                              /\ event.key = key
                              /\ event.time = t,
                    !.invoked = invoked, !.behaviour = behaviour,
                    !.ended = Ended(invoked, behaviour)]
\* the record of an event of the mouse listener
MouseEvent(handler, button, pressed, dy, invoked, behaviour) ==
    [NoEvent EXCEPT !.handler = handler, !.button = button,
                    !.pressed = pressed, !.dy = dy, !.time = tenths(ticks),
                    !.invoked = invoked, !.behaviour = behaviour,
                    !.ended = Ended(invoked, behaviour)]

\* on_key_press(key); the callback it invokes, if any, behaves as
\* `behaviour`.  A SystemExit that leaves the handler ends the listener's
\* thread.
on_key_press(key, behaviour) ==
    /\ keyboard_listener = "alive"
    /\ \E now \in 0..MaxTicks :
        /\ IF ReadsTime(key) THEN ReadTime(now)
                             ELSE now = ticks /\ UNCHANGED ticks
        /\ LET current_time == tenths(now)
               path == Path(key, current_time)
               key_char == lower(CharOf(key))
               invoked == Invoked(key, path)
           IN  /\ behaviour \in BehavioursOf(invoked)
               /\ alt_pressed' = IF path = "alt" THEN TRUE ELSE alt_pressed
               /\ _last_hotkey_time' =
                      IF path = "hotkey"
                         THEN [_last_hotkey_time EXCEPT
                                  ![key_char] = current_time]
                         ELSE _last_hotkey_time
               /\ accepted' =
                      IF path = "hotkey" /\ invoked # <<>>
                         THEN [accepted EXCEPT ![key_char] = current_time]
                         ELSE accepted
               /\ event' = KeyEvent("on_key_press", key, current_time,
                                    invoked, behaviour)
               /\ keyboard_listener' =
                      IF Ended(invoked, behaviour) = "escaped"
                         THEN "ended" ELSE keyboard_listener
    /\ UNCHANGED << hotkeys, mouse_listener, middle_button_pressed,
                    programVars >>

\* on_key_release(key)
on_key_release(key) ==
    /\ keyboard_listener = "alive"
    /\ alt_pressed' = IF key \in AltKeys THEN FALSE ELSE alt_pressed
    /\ event' = KeyEvent("on_key_release", key, tenths(ticks), <<>>, "returns")
    /\ UNCHANGED << hotkeys, keyboard_listener, mouse_listener,
                    middle_button_pressed, _last_hotkey_time, ticks, accepted,
                    programVars >>

\* on_mouse_click(x, y, button, pressed)
on_mouse_click(button, pressed) ==
    /\ mouse_listener = "alive"
    /\ middle_button_pressed' =
           IF button = "middle" THEN pressed ELSE middle_button_pressed
    /\ event' = MouseEvent("on_mouse_click", button, pressed, 0, <<>>,
                           "returns")
    /\ UNCHANGED << hotkeys, keyboard_listener, mouse_listener, alt_pressed,
                    _last_hotkey_time, ticks, accepted, programVars >>

\* an on_mouse_scroll that does not look at the middle button
ScrolledAnyTime(dy) ==
    IF dy > 0 THEN << "on_capture_key" >>
    ELSE IF dy < 0 THEN << "on_show_answers" >>
    ELSE <<>>

\* the callback on_mouse_scroll invokes for dy
Scrolled(dy) ==
    IF ~middle_button_pressed THEN <<>>
    ELSE IF dy > 0 THEN << "on_capture_key" >>
    ELSE IF dy < 0 THEN << "on_show_answers" >>
    ELSE <<>>

\* on_mouse_scroll(x, y, dx, dy)
on_mouse_scroll(dy, behaviour) ==
    /\ mouse_listener = "alive"
    /\ behaviour \in BehavioursOf(Scrolled(dy))
    /\ event' = MouseEvent("on_mouse_scroll", "", FALSE, dy, Scrolled(dy),
                           behaviour)
    /\ mouse_listener' = IF Ended(Scrolled(dy), behaviour) = "escaped"
                            THEN "ended" ELSE mouse_listener
    /\ UNCHANGED << hotkeys, keyboard_listener, alt_pressed,
                    middle_button_pressed, _last_hotkey_time, ticks, accepted,
                    programVars >>

NextKeys ==
    \/ \E settings \in SettingsFiles : HotkeyListenerInit(settings)
    \/ HotkeyListenerStart
    \/ \E key \in Keys :
        \/ \E behaviour \in CallbackBehaviours : on_key_press(key, behaviour)
        \/ on_key_release(key)
    \/ \E button \in Buttons, pressed \in BOOLEAN :
           on_mouse_click(button, pressed)
    \/ \E dy \in Scrolls, behaviour \in CallbackBehaviours :
           on_mouse_scroll(dy, behaviour)

SpecKeys == Init /\ [][NextKeys]_vars

(***************************************************************************)
(* Claims about the dispatcher.  In a step that handles an event, event'   *)
(* is that event and the unprimed variables are the state it arrived in.   *)
(***************************************************************************)
\* this step is on_key_press of a key that carries the character `char`
Pressed(char) ==
    /\ event' # event
    /\ event'.handler = "on_key_press"
    /\ CharOf(event'.key) = char
\* the characters other than the exit character
HotkeyChars == Chars \ { Grave }

\* C21: with the modifier held, a press of a bound character at time t
\* invokes its action if and only if t - last_triggered[char] >= 0.5 s,
\* where last_triggered[char] (`accepted`, 0 before the first) is the time
\* of the last press of that character that invoked its action; a press
\* that is suppressed changes no last_triggered entry, a press that fires
\* changes only its own, and the table the code keeps agrees with it.
C21_Debounce ==
    [][\A char \in HotkeyChars :
          (Pressed(char) /\ alt_pressed /\ BoundTo(lower(char)) # {}) =>
              LET fired == event'.invoked # <<>>
              IN  /\ fired <=> (event'.time - accepted[lower(char)]
                                    >= _hotkey_cooldown)
                  /\ accepted' = IF fired
                                    THEN [accepted EXCEPT
                                             ![lower(char)] = event'.time]
                                    ELSE accepted
                  /\ _last_hotkey_time'[lower(char)] = accepted'[lower(char)]
                  /\ \A other \in LowerChars \ { lower(char) } :
                         _last_hotkey_time'[other] = _last_hotkey_time[other]]_vars

\* a press of the bound character z, with the modifier held, 0.2 s after the
\* press of z that fired last: it is suppressed
C21_Witness ==
    /\ event.handler = "on_key_press"
    /\ event.key = KeyCode(Some("z"))
    /\ alt_pressed
    /\ BoundTo("z") # {}
    /\ event.invoked = <<>>
    /\ event.time - accepted["z"] = 2

\* the actions, by their place in the chain, that char is bound to
ActionsOf(char) ==
    { i \in DOMAIN ActionNames : hotkeys[ActionNames[i]] = lower(char) }
\* this step is a press of `char` with the modifier held and outside the
\* cooldown of that character
PressedOutsideCooldown(char) ==
    /\ Pressed(char)
    /\ alt_pressed
    /\ event'.time - _last_hotkey_time[lower(char)] >= _hotkey_cooldown

NoCharEvent(handler) ==
    /\ event' # event
    /\ event'.handler = handler
    /\ CharOf(event'.key) = ""

PressedDelete ==
    /\ event' # event
    /\ event'.handler = "on_key_press"
    /\ event'.key = Key("delete")

CallbackRaised ==
    /\ event' # event
    /\ event'.invoked # <<>>
    /\ event'.behaviour = "raises"

\* C25: when the callback a handler invokes raises an Exception, the handler
\* returns normally: both listener threads go on, the modifier flag and the
\* middle-button flag are what they were, and of the debounce table only
\* the entry of the pressed character has changed, to the time of this
\* press; a listener whose thread goes on handles whatever event comes next.
C25_ErrorsSwallowed ==
    /\ [][CallbackRaised =>
             /\ event'.ended = "returned"
             /\ UNCHANGED << keyboard_listener, mouse_listener, alt_pressed,
                             middle_button_pressed, hotkeys >>
             /\ \A char \in LowerChars :
                    \/ _last_hotkey_time'[char] = _last_hotkey_time[char]
                    \/ /\ char = lower(CharOf(event'.key))
                       /\ _last_hotkey_time'[char] = event'.time]_vars
    /\ [](keyboard_listener = "alive" =>
             \A key \in Keys :
                 /\ ENABLED (\E behaviour \in CallbackBehaviours :
                                on_key_press(key, behaviour))
                 /\ ENABLED on_key_release(key))
    /\ [](mouse_listener = "alive" =>
             /\ \A dy \in Scrolls :
                    ENABLED (\E behaviour \in CallbackBehaviours :
                                on_mouse_scroll(dy, behaviour))
             /\ \A button \in Buttons : ENABLED on_mouse_click(button, TRUE))

\* on_check_key, invoked for Alt+X, raised an Exception: both listeners are
\* alive, the modifier is still held and the press is in the debounce table
C25_Witness ==
    /\ event.handler = "on_key_press"
    /\ event.invoked = << "on_check_key" >>
    /\ event.behaviour = "raises"
    /\ keyboard_listener = "alive"
    /\ mouse_listener = "alive"
    /\ alt_pressed
    /\ _last_hotkey_time["x"] = event.time

\* this step handles a mouse event of `handler`
MouseHandled(handler) == event' # event /\ event'.handler = handler

relayOthers == << coreVars, keyVars, answersVars >>

\* puts made or about to be made
PutsStarted ==
    puts + Cardinality({ p \in Hooks : producer[p].pc = "put" })

\* show(content) without the loop that empties the queue
ShowKeepsQueue(p, content) ==
    /\ producer[p].pc = "idle"
    /\ PutsStarted < MaxCommands
    /\ producer' = [producer EXCEPT
            ![p] = [pc |-> "put", command |-> Command("show", content, 0),
                    ref |-> None]]
    /\ UNCHANGED << command_queue, current_popup, _is_visible, surfaces,
                    nextSurface, puts, ui, relayOthers >>

\* show(content), the loop that empties the queue (lines 135-142)
Show(p, content) ==
    /\ producer[p].pc = "idle"
    /\ PutsStarted < MaxCommands
    /\ command_queue' = <<>>
    /\ producer' = [producer EXCEPT
            ![p] = [pc |-> "put", command |-> Command("show", content, 0),
                    ref |-> None]]
    /\ UNCHANGED << current_popup, _is_visible, surfaces, nextSurface, puts,
                    ui, relayOthers >>

\* hide(), the loop that empties the queue (lines 329-333)
Hide(p) ==
    /\ producer[p].pc = "idle"
    /\ PutsStarted < MaxCommands
    /\ command_queue' = <<>>
    /\ producer' = [producer EXCEPT
            ![p] = [pc |-> "put", command |-> Command("hide", "", 0),
                    ref |-> None]]
    /\ UNCHANGED << current_popup, _is_visible, surfaces, nextSurface, puts,
                    ui, relayOthers >>

\* command_queue.put(...) of show() (line 145) and of hide() (line 336)
Put(p) ==
    /\ producer[p].pc = "put"
    /\ puts' = puts + 1
    /\ command_queue' =
            Append(command_queue,
                   [producer[p].command EXCEPT !.seq = puts + 1])
    /\ producer' = [producer EXCEPT ![p] = IdleProducer]
    /\ UNCHANGED << current_popup, _is_visible, surfaces, nextSurface, ui,
                    relayOthers >>


\* the Tkinter thread handles events: root.mainloop() (line 55) between two
\* runs of _process_commands, and popup.update() (line 255)
Serving == ui.pc \in { "idle", "show_update" }

\* is_visible(), "if self.current_popup:" (line 373)
IsVisible(p) ==
    /\ producer[p].pc = "idle"
    /\ producer' = [producer EXCEPT
            ![p].pc = IF current_popup = None THEN "idle"
                      ELSE "visible_deref"]
    /\ UNCHANGED << command_queue, current_popup, _is_visible, surfaces,
                    nextSurface, puts, ui, relayOthers >>

\* is_visible(), the second read "self.current_popup" of line 376; None has
\* no winfo_exists and the AttributeError leads to line 383
IsVisibleDeref(p) ==
    /\ producer[p].pc = "visible_deref"
    /\ producer' = [producer EXCEPT
            ![p].pc = IF current_popup = None THEN "visible_clear"
                      ELSE "visible_exists",
            ![p].ref = current_popup]
    /\ UNCHANGED << command_queue, current_popup, _is_visible, surfaces,
                    nextSurface, puts, ui, relayOthers >>

\* is_visible(), ".winfo_exists()" (line 376) carried out by the Tkinter
\* thread, then "return self._is_visible" (line 377) or lines 379-381
IsVisibleExists(p) ==
    /\ producer[p].pc = "visible_exists"
    /\ Serving
    /\ producer' = [producer EXCEPT
            ![p] = IF producer[p].ref[1] \in surfaces THEN IdleProducer
                   ELSE [@ EXCEPT !.pc = "visible_clear"]]
    /\ UNCHANGED << command_queue, current_popup, _is_visible, surfaces,
                    nextSurface, puts, ui, relayOthers >>

\* is_visible(), lines 379-381 and 384-386
IsVisibleClear(p) ==
    /\ producer[p].pc = "visible_clear"
    /\ current_popup' = None
    /\ _is_visible' = FALSE
    /\ producer' = [producer EXCEPT ![p] = IdleProducer]
    /\ UNCHANGED << command_queue, surfaces, nextSurface, puts, ui,
                    relayOthers >>

\* close(), "if self.current_popup:" (line 354)
Close(p) ==
    /\ producer[p].pc = "idle"
    /\ producer' = [producer EXCEPT
            ![p].pc = IF current_popup = None THEN "idle"
                      ELSE "close_deref"]
    /\ UNCHANGED << command_queue, current_popup, _is_visible, surfaces,
                    nextSurface, puts, ui, relayOthers >>

\* close(), the second read "self.current_popup" of line 356; on None the
\* AttributeError leaves through the finally clause
CloseDeref(p) ==
    /\ producer[p].pc = "close_deref"
    /\ producer' = [producer EXCEPT
            ![p].pc = IF current_popup = None THEN "close_clear"
                      ELSE "close_destroy",
            ![p].ref = current_popup]
    /\ UNCHANGED << command_queue, current_popup, _is_visible, surfaces,
                    nextSurface, puts, ui, relayOthers >>

\* close(), ".destroy()" (line 356) carried out by the Tkinter thread
CloseDestroy(p) ==
    /\ producer[p].pc = "close_destroy"
    /\ Serving
    /\ surfaces' = surfaces \ { producer[p].ref[1] }
    /\ producer' = [producer EXCEPT ![p].pc = "close_clear"]
    /\ UNCHANGED << command_queue, current_popup, _is_visible, nextSurface,
                    puts, ui, relayOthers >>

\* close(), the finally clause (lines 359-362)
CloseClear(p) ==
    /\ producer[p].pc = "close_clear"
    /\ current_popup' = None
    /\ _is_visible' = FALSE
    /\ producer' = [producer EXCEPT ![p] = IdleProducer]
    /\ UNCHANGED << command_queue, surfaces, nextSurface, puts, ui,
                    relayOthers >>


\* _process_commands, "while not self.command_queue.empty():" found true
\* and get_nowait() (lines 61-62), at the start of a run or inside it
UiGet ==
    /\ ui.pc \in { "idle", "loop" }
    /\ command_queue # <<>>
    /\ command_queue' = Tail(command_queue)
    /\ ui' = [ui EXCEPT
            !.command = Head(command_queue),
            !.pc = IF Head(command_queue).command = "show"
                   THEN "show_destroy" ELSE "hide"]
    /\ UNCHANGED << current_popup, _is_visible, surfaces, nextSurface, puts,
                    producer, relayOthers >>

\* _process_commands finds the queue empty and schedules its next run
\* (lines 61 and 69-72)
UiDone ==
    /\ ui.pc = "loop"
    /\ command_queue = <<>>
    /\ ui' = IdleUi
    /\ UNCHANGED << command_queue, current_popup, _is_visible, surfaces,
                    nextSurface, puts, producer, relayOthers >>

\* _create_popup_internal, the old popup is destroyed (lines 163-170)
UiShowDestroy ==
    /\ ui.pc = "show_destroy"
    /\ IF current_popup # None
       THEN /\ surfaces' = surfaces \ { current_popup[1] }
            /\ current_popup' = None
            /\ _is_visible' = FALSE
       ELSE UNCHANGED << surfaces, current_popup, _is_visible >>
    /\ ui' = [ui EXCEPT !.pc = "show_create"]
    /\ UNCHANGED << command_queue, nextSurface, puts, producer,
                    relayOthers >>

\* _create_popup_internal, "popup = tk.Toplevel(self.root)" (line 176) up
\* to "popup.update()" (line 255)
UiShowCreate ==
    /\ ui.pc = "show_create"
    /\ nextSurface <= MaxSurfaces
    /\ surfaces' = surfaces \cup { nextSurface }
    /\ nextSurface' = nextSurface + 1
    /\ ui' = [ui EXCEPT !.pc = "show_update", !.popup = Some(nextSurface)]
    /\ UNCHANGED << command_queue, current_popup, _is_visible, puts,
                    producer, relayOthers >>

\* _create_popup_internal, "Save reference" (lines 258-260)
UiShowSave ==
    /\ ui.pc = "show_update"
    /\ current_popup' = ui.popup
    /\ _is_visible' = TRUE
    /\ ui' = [ui EXCEPT !.pc = "loop", !.popup = None]
    /\ UNCHANGED << command_queue, surfaces, nextSurface, puts, producer,
                    relayOthers >>

\* _hide_internal (lines 338-348)
UiHide ==
    /\ ui.pc = "hide"
    /\ IF current_popup # None
       THEN /\ surfaces' = surfaces \ { current_popup[1] }
            /\ current_popup' = None
            /\ _is_visible' = FALSE
       ELSE UNCHANGED << surfaces, current_popup, _is_visible >>
    /\ ui' = [ui EXCEPT !.pc = "loop"]
    /\ UNCHANGED << command_queue, nextSurface, puts, producer,
                    relayOthers >>

\* a step of the Tkinter thread
UiStep ==
    \/ UiGet
    \/ UiDone
    \/ UiShowDestroy
    \/ UiShowCreate
    \/ UiShowSave
    \/ UiHide

\* a step of show() or hide() made by thread p
Produce(p) ==
    \/ \E content \in Contents : Show(p, content)
    \/ Hide(p)
    \/ Put(p)

\* a step of is_visible() or close() made by thread p
Inspect(p) ==
    \/ IsVisible(p)
    \/ IsVisibleDeref(p)
    \/ IsVisibleExists(p)
    \/ IsVisibleClear(p)
    \/ Close(p)
    \/ CloseDeref(p)
    \/ CloseDestroy(p)
    \/ CloseClear(p)

\* both listener threads use the PopupManager
NextRelay ==
    \/ \E p \in Hooks, content \in Contents : Show(p, content) /\ UNCHANGED toggle
    \/ \E p \in Hooks : Hide(p) /\ UNCHANGED toggle
    \/ \E p \in Hooks : Put(p) /\ UNCHANGED toggle
    \/ \E p \in Hooks : IsVisible(p) /\ UNCHANGED toggle
    \/ \E p \in Hooks : IsVisibleDeref(p) /\ UNCHANGED toggle
    \/ \E p \in Hooks : IsVisibleExists(p) /\ UNCHANGED toggle
    \/ \E p \in Hooks : IsVisibleClear(p) /\ UNCHANGED toggle
    \/ \E p \in Hooks : Close(p) /\ UNCHANGED toggle
    \/ \E p \in Hooks : CloseDeref(p) /\ UNCHANGED toggle
    \/ \E p \in Hooks : CloseDestroy(p) /\ UNCHANGED toggle
    \/ \E p \in Hooks : CloseClear(p) /\ UNCHANGED toggle
    \/ UiGet /\ UNCHANGED toggle
    \/ UiDone /\ UNCHANGED toggle
    \/ UiShowDestroy /\ UNCHANGED toggle
    \/ UiShowCreate /\ UNCHANGED toggle
    \/ UiShowSave /\ UNCHANGED toggle
    \/ UiHide /\ UNCHANGED toggle

SpecRelay == Init /\ [][NextRelay]_vars

\* one thread alone calls show() and hide()
NextOneProducer ==
    \/ \E content \in Contents : Show("keyboard", content) /\ UNCHANGED toggle
    \/ Hide("keyboard") /\ UNCHANGED toggle
    \/ Put("keyboard") /\ UNCHANGED toggle
    \/ UiGet /\ UNCHANGED toggle
    \/ UiDone /\ UNCHANGED toggle
    \/ UiShowDestroy /\ UNCHANGED toggle
    \/ UiShowCreate /\ UNCHANGED toggle
    \/ UiShowSave /\ UNCHANGED toggle
    \/ UiHide /\ UNCHANGED toggle

SpecOneProducer == Init /\ [][NextOneProducer]_vars


(***************************************************************************)
(* Claims about the Command Relay.                                         *)
(***************************************************************************)
\* the Tkinter thread takes a command off the queue in this step
Takes == ui'.command.seq \notin { 0, ui.command.seq }

\* C27: with a single producer the queue never holds anything but the
\* command enqueued last, so that after show("X"), show("Y") with no run
\* of the consumer in between the queue is exactly << show "Y" >>; the
\* command the consumer takes is the one enqueued last and it is the only
\* one its run finds, and a command replaced before the consumer ran is
\* never taken, hence never rendered.
C27_LastWriteWins ==
    /\ [](/\ Len(command_queue) <= 1
          /\ \A i \in DOMAIN command_queue : command_queue[i].seq = puts)
    /\ [][Takes =>
            /\ ui'.command.seq = puts
            /\ command_queue' = <<>>]_vars

\* show("X"), then show or hide before the consumer ran: the first
\* Toplevel ever created is the one of the second command
C27_Witness ==
    /\ puts = 2
    /\ ui.command.seq = 2
    /\ ui.command.command = "show"
    /\ ui.pc = "show_update"
    /\ nextSurface = 2


\* C28: with both listener threads calling show and hide, the queue never
\* holds more than one command, and the consumer never takes a command
\* while a command enqueued after it is in the queue.
C28_MostRecentOnly ==
    /\ [](Len(command_queue) <= 1)
    /\ [][Takes =>
            \A i \in DOMAIN command_queue' :
                command_queue'[i].seq < ui'.command.seq]_vars


\* what is_visible() returns when nothing runs beside it (lines 373-389)
is_visible ==
    /\ current_popup # None
    /\ current_popup[1] \in surfaces
    /\ _is_visible

\* the Tkinter thread moves from one position to another in this step
UiMoves(from, to) == ui.pc = from /\ ui'.pc = to

\* C29: at most one Toplevel exists at any time; the consumer creates the
\* Toplevel of a show when none exists, and is_visible() is true once the
\* show is processed; no Toplevel exists once a hide is processed, and
\* is_visible() is false.
C29_OneSurface ==
    /\ [](Cardinality(surfaces) <= 1)
    /\ [][UiMoves("show_create", "show_update") => surfaces = {}]_vars
    /\ [][UiMoves("show_update", "loop") => is_visible']_vars
    /\ [][UiMoves("hide", "loop") => surfaces' = {} /\ ~is_visible']_vars


\* a listener thread holds a reference read from current_popup or is about
\* to write current_popup and _is_visible
HoldsSurfaceState(p) ==
    \/ producer[p].ref # None
    \/ producer[p].pc \in { "visible_deref", "visible_exists", "visible_clear",
                           "close_deref", "close_destroy", "close_clear" }

\* C30: the listener threads never read current_popup or _is_visible, and
\* no step of theirs writes current_popup or _is_visible or destroys a
\* Toplevel: they only change the queue.
C30_OnlyUiThreadTouches ==
    /\ [](\A p \in Hooks : ~HoldsSurfaceState(p))
    /\ [][producer' # producer =>
            UNCHANGED << current_popup, _is_visible, surfaces >>]_vars


(***************************************************************************)
(* Part 5 - the answer history (src/src/main.py).                          *)
(*                                                                         *)
(* _on_api_success runs on the pool thread of its task, one statement at   *)
(* a time; on_reset_answers_hotkey runs on the keyboard listener's thread. *)
(* Neither holds a lock.  list.append, list.clear and str.join are single  *)
(* steps of the interpreter.  A file opened with mode 'w' is emptied by    *)
(* open() and receives what was written when it is closed.                 *)
(***************************************************************************)
\* what a step of this part leaves alone
answersOthers == << lock, pc, locals, history, clock, appVars, keyVars,
                    current_popup, _is_visible, surfaces, nextSurface,
                    producer, ui >>

\* on_capture_hotkey creates the Request and submits the task
\* (lines 237-254), and pool thread w starts it
AnswersAccept(w) ==
    /\ success[w].pc = "idle"
    /\ nextId <= MaxRequests
    /\ current_request' = Request(nextId, "PROCESSING", clock, None, None)
    /\ nextId' = nextId + 1
    /\ success' = [success EXCEPT ![w].pc = "analyze"]
    /\ UNCHANGED << command_queue, puts, _answer_history, answers_txt,
                    resetting, answersOthers >>

\* analyze_quiz returned `result`: _on_api_success, up to
\* self.request_manager.set_result(result) (lines 304-314)
OnApiSuccess(w, result) ==
    /\ success[w].pc = "analyze"
    /\ current_request' = set_result(current_request, result)
    /\ success' = [success EXCEPT
            ![w].pc = "append", ![w].result = Some(result), ![w].i = 1]
    /\ UNCHANGED << nextId, command_queue, puts, _answer_history,
                    answers_txt, resetting, answersOthers >>

\* "if not q.answer or q.answer.strip() == ''" (line 319)
Blank(answer) == answer = <<>> \/ strip(answer) = <<>>

\* a loop that puts the new entry before the existing ones
AppendAnswerFirst(w) ==
    /\ success[w].pc = "append"
    /\ LET questions == success[w].result[1].questions
           q == questions[success[w].i]
       IN  IF success[w].i > Len(questions)
              THEN /\ success' = [success EXCEPT ![w].pc = "save_open"]
                   /\ UNCHANGED _answer_history
              ELSE /\ success' = [success EXCEPT ![w].i = @ + 1]
                   /\ _answer_history' =
                          IF Blank(q.answer) THEN _answer_history
                          ELSE << q.number \o q.answer >> \o _answer_history
    /\ UNCHANGED << current_request, nextId, command_queue, puts,
                    answers_txt, resetting, answersOthers >>

\* one round of "for q in result.questions:" (lines 317-325), or the loop
\* is left
AppendAnswer(w) ==
    /\ success[w].pc = "append"
    /\ LET questions == success[w].result[1].questions
           q == questions[success[w].i]
       IN  IF success[w].i > Len(questions)
              THEN /\ success' = [success EXCEPT ![w].pc = "save_open"]
                   /\ UNCHANGED _answer_history
              ELSE /\ success' = [success EXCEPT ![w].i = @ + 1]
                   /\ _answer_history' =
                          IF Blank(q.answer) THEN _answer_history
                          ELSE Append(_answer_history, q.number \o q.answer)
    /\ UNCHANGED << current_request, nextId, command_queue, puts,
                    answers_txt, resetting, answersOthers >>


\* _save_answers_to_file: open(self._answer_file, 'w') creates the file or
\* empties it (line 621)
SaveOpen(w) ==
    /\ success[w].pc = "save_open"
    /\ answers_txt' = Some(<<>>)
    /\ success' = [success EXCEPT ![w].pc = "save_join", ![w].f = "open"]
    /\ UNCHANGED << current_request, nextId, command_queue, puts,
                    _answer_history, resetting, answersOthers >>

\* f.write(" ".join(self._answer_history)) (line 622): the text stays in
\* the buffer of f
SaveJoin(w) ==
    /\ success[w].pc = "save_join"
    /\ success' = [success EXCEPT
            ![w].pc = "save_close",
            ![w].data = join(<<" ">>, _answer_history)]
    /\ UNCHANGED << current_request, nextId, command_queue, puts,
                    _answer_history, answers_txt, resetting, answersOthers >>

\* the with statement closes f (line 621): the buffer goes to the file at
\* offset 0, or nowhere when the file was removed while f was open;
\* _on_api_success is left
SaveClose(w) ==
    /\ success[w].pc = "save_close"
    /\ answers_txt' =
            IF success[w].f = "open"
               THEN Some(Overwrite(answers_txt[1], success[w].data))
               ELSE answers_txt
    /\ success' = [success EXCEPT ![w] = IdleSuccess]
    /\ UNCHANGED << current_request, nextId, command_queue, puts,
                    _answer_history, resetting, answersOthers >>

\* on_reset_answers_hotkey: os.path.exists(self._answer_file) (line 572)
ResetExists ==
    /\ resetting.pc = "idle"
    /\ puts < MaxCommands
    /\ resetting' = [resetting EXCEPT
            !.pc = IF answers_txt # None THEN "remove" ELSE "clear"]
    /\ UNCHANGED << current_request, nextId, command_queue, puts,
                    _answer_history, answers_txt, success, answersOthers >>

\* pool threads that have the file open
Writers == { w \in Workers : success[w].f = "open" }

\* os.remove(self._answer_file) (line 573).  While a pool thread has the
\* file open the outcome depends on the platform: the name is removed and
\* the open file is written to no more, or PermissionError is raised and
\* the except clause is entered (lines 583-585)
ResetRemove ==
    /\ resetting.pc = "remove"
    /\ \/ /\ answers_txt' = None
          /\ success' = [w \in Workers |->
                 IF w \in Writers THEN [success[w] EXCEPT !.f = "unlinked"]
                 ELSE success[w]]
          /\ resetting' = [resetting EXCEPT !.pc = "clear"]
       \/ /\ Writers # {}
          /\ resetting' = [resetting EXCEPT !.pc = "error"]
          /\ UNCHANGED << answers_txt, success >>
    /\ UNCHANGED << current_request, nextId, command_queue, puts,
                    _answer_history, answersOthers >>

\* count = len(self._answer_history); self._answer_history.clear()
\* (lines 576-577)
ResetClear ==
    /\ resetting.pc = "clear"
    /\ _answer_history' = <<>>
    /\ resetting' = [pc |-> "show", count |-> Len(_answer_history)]
    /\ UNCHANGED << current_request, nextId, command_queue, puts,
                    answers_txt, success, answersOthers >>

\* self.popup_manager.show(message) (lines 579-580 and 585), the only
\* call of show() or hide() in this part
ResetShow ==
    /\ resetting.pc \in { "show", "error" }
    /\ puts' = puts + 1
    /\ command_queue' =
            << Command("show",
                       IF resetting.pc = "show" THEN "Cleared" ELSE "Error",
                       puts + 1) >>
    /\ resetting' = IdleReset
    /\ UNCHANGED << current_request, nextId, _answer_history, answers_txt,
                    success, answersOthers >>

\* _load_answers_from_file (lines 627-645): what __init__ leaves in
\* _answer_history when the file is `file`
_load_answers_from_file(file) ==
    IF file = None THEN <<>>
    ELSE LET content == strip(file[1])
         IN  IF content # <<>> THEN split(content) ELSE <<>>

\* nothing of _on_api_success or on_reset_answers_hotkey is running
AnswersIdle ==
    /\ resetting.pc = "idle"
    /\ \A w \in Workers : success[w].pc = "idle"

\* the program is left and started again: __init__ (lines 116-119) reads
\* the file of the run before
Restart ==
    /\ AnswersIdle
    /\ _answer_history' = _load_answers_from_file(answers_txt)
    /\ current_request' = None
    /\ command_queue' = <<>>
    /\ UNCHANGED << nextId, puts, answers_txt, success, resetting,
                    answersOthers >>

\* a step of _on_api_success on pool thread w, or the start of its task
Complete(w) ==
    \/ AnswersAccept(w)
    \/ \E result \in AnswerResults : OnApiSuccess(w, result)
    \/ AppendAnswer(w)
    \/ SaveOpen(w)
    \/ SaveJoin(w)
    \/ SaveClose(w)

\* a step of on_reset_answers_hotkey
Reset ==
    \/ ResetExists
    \/ ResetRemove
    \/ ResetClear
    \/ ResetShow

NextAnswers ==
    \/ \E w \in Workers : AnswersAccept(w) /\ UNCHANGED toggle
    \/ \E w \in Workers, result \in AnswerResults :
           OnApiSuccess(w, result) /\ UNCHANGED toggle
    \/ \E w \in Workers : AppendAnswer(w) /\ UNCHANGED toggle
    \/ \E w \in Workers : SaveOpen(w) /\ UNCHANGED toggle
    \/ \E w \in Workers : SaveJoin(w) /\ UNCHANGED toggle
    \/ \E w \in Workers : SaveClose(w) /\ UNCHANGED toggle
    \/ ResetExists /\ UNCHANGED toggle
    \/ ResetRemove /\ UNCHANGED toggle
    \/ ResetClear /\ UNCHANGED toggle
    \/ ResetShow /\ UNCHANGED toggle
    \/ Restart /\ UNCHANGED toggle

SpecAnswers == Init /\ [][NextAnswers]_vars


(***************************************************************************)
(* Claims about the answer history.                                        *)
(***************************************************************************)
\* pool thread w executes a statement of _on_api_success in this step
SuccessStep(w) ==
    \/ success'[w].pc # success[w].pc
    \/ success'[w].i # success[w].i

\* the answer consists of white space only, or of nothing
NonBlank(answer) == \E k \in DOMAIN answer : answer[k] \notin Whitespace

Saved(h) == Some(join(<<" ">>, h))

\* C32: whatever the history is, the file written from it is read back at
\* the next start as the same sequence of entries.
C32_RoundTrip ==
    _load_answers_from_file(Saved(_answer_history)) = _answer_history


(***************************************************************************)
(* Part 6 - the toggle handlers on_check_hotkey and on_show_answers_hotkey *)
(* (src/src/main.py).  A handler runs on the listener thread that received *)
(* its event; its calls of is_visible(), hide() and show() are the steps   *)
(* of Part 4 made by that thread, and get_current_status() is one step     *)
(* under the Tracker's lock.                                               *)
(***************************************************************************)
\* number of captures explored beside the toggle handlers
ToggleRequests == 1

\* settings_manager.py: the default of 'answers_per_line'
answers_per_line == 10

\* what is handed to show(): the kind of message and its text
Content(kind, text) == [kind |-> kind, text |-> text]

\* request_manager.py: what the whole of get_current_status returns
get_current_status ==
    IF current_request = None THEN NoneStatus
    ELSE [status |-> current_request.status,
          result |-> current_request.result,
          error |-> current_request.error,
          elapsed_time |->
              IF current_request.status = "PROCESSING"
                 THEN Some(get_elapsed_time(current_request)) ELSE None]

\* models.py: QuizResult.format_display, two lines per question
RECURSIVE format_display(_)
format_display(questions) ==
    IF questions = <<>> THEN <<>>
    ELSE << << "Question ", Head(questions).number, ": " >>,
            << "-> ", Head(questions).answer >> >>
             \o format_display(Tail(questions))

\* a handler that shows every error message as it is
ResultsContentPlainError(info) ==
    CASE info.status = "NONE" ->
            Some(Content("no data", << "No data yet" >>))
      [] info.status = "PROCESSING" ->
            Some(Content("processing", info.elapsed_time))
      [] info.status = "COMPLETED" ->
            Some(Content("result", format_display(info.result[1].questions)))
      [] info.status = "ERROR" ->
            Some(Content("error", << "Error: " \o info.error[1] >>))
      [] OTHER -> None

\* on_check_hotkey: what is shown for the dictionary info (lines 424-448)
ResultsContent(info) ==
    CASE info.status = "NONE" ->
            Some(Content("no data", << "No data yet" >>))
      [] info.status = "PROCESSING" ->
            Some(Content("processing", info.elapsed_time))
      [] info.status = "COMPLETED" ->
            IF info.result # None
               THEN Some(Content("result",
                        format_display(info.result[1].questions)))
               ELSE Some(Content("no results", << "No results" >>))
      [] info.status = "ERROR" ->
            Some(Content("error", << error_text(info.error[1]) >>))
      [] OTHER -> None

\* on_show_answers_hotkey: the lines of answers_per_line entries each
\* (lines 547-553)
RECURSIVE AnswerLines(_)
AnswerLines(h) ==
    IF Len(h) <= answers_per_line THEN << join(<<" ">>, h) >>
    ELSE << join(<<" ">>, SubSeq(h, 1, answers_per_line)) >>
             \o AnswerLines(SubSeq(h, answers_per_line + 1, Len(h)))

\* on_show_answers_hotkey: what is shown (lines 543-555)
AnswersContent ==
    IF _answer_history = <<>>
       THEN Content("no answers", << "No answers saved yet" >>)
       ELSE Content("answers", AnswerLines(_answer_history))


\* what a step of a handler that calls nothing of the PopupManager leaves
\* alone
toggleOthers == << coreVars, keyVars, relayVars, answersVars >>

\* the handlers the listener threads run: the keyboard has a hotkey for
\* each, the mouse gesture shows the answers (hotkey_listener.py:175-178)
TogglesOf(h) ==
    IF h = "keyboard" THEN { "results", "answers" } ELSE { "answers" }

\* handlers that have not made their put yet
Toggling == { h \in Hooks : toggle[h].pc # "idle" }

\* the dispatcher calls on_check_hotkey or on_show_answers_hotkey on
\* thread h
TogglePress(h, action) ==
    /\ toggle[h].pc = "idle"
    /\ producer[h].pc = "idle"
    /\ puts + Cardinality(Toggling) < MaxCommands
    /\ toggle' = [toggle EXCEPT
            ![h] = [pc |-> "is_visible", action |-> action,
                    status_info |-> None]]
    /\ UNCHANGED toggleOthers

\* what is_visible() returns when the step thread h is about to make ends
\* the call (popup_manager.py lines 377, 381, 386 and 389)
Visible(h) ==
    /\ producer[h].pc = "visible_exists"
    /\ _is_visible

\* "if self.popup_manager.is_visible():" (lines 416 and 538), a step of
\* is_visible(); when the call returns the handler goes on to hide() or to
\* its content
ToggleIsVisible(h) ==
    /\ toggle[h].pc = "is_visible"
    /\ \/ IsVisible(h)
       \/ IsVisibleDeref(h)
       \/ IsVisibleExists(h)
       \/ IsVisibleClear(h)
    /\ toggle' = [toggle EXCEPT
            ![h].pc = IF producer'[h].pc # "idle" THEN "is_visible"
                      ELSE IF Visible(h) THEN "hide"
                      ELSE IF toggle[h].action = "results" THEN "get_status"
                      ELSE "show"]

\* self.popup_manager.hide(), the loop that empties the queue
\* (lines 417 and 539)
ToggleHide(h) ==
    /\ toggle[h].pc = "hide"
    /\ Hide(h)
    /\ toggle' = [toggle EXCEPT ![h].pc = "put"]

\* status_info = self.request_manager.get_current_status() (line 422)
ToggleGetStatus(h) ==
    /\ toggle[h].pc = "get_status"
    /\ toggle' = [toggle EXCEPT
            ![h].pc = "show", ![h].status_info = Some(get_current_status)]
    /\ UNCHANGED toggleOthers

\* what the handler of thread h shows
ToggleContent(h) ==
    IF toggle[h].action = "results"
       THEN ResultsContent(toggle[h].status_info[1])[1]
       ELSE AnswersContent

\* self.popup_manager.show(...), the loop that empties the queue
\* (lines 427-448 and 543-555)
ToggleShow(h) ==
    /\ toggle[h].pc = "show"
    /\ Show(h, ToggleContent(h))
    /\ toggle' = [toggle EXCEPT ![h].pc = "put"]

\* the put of show() or hide(); the handler returns
TogglePut(h) ==
    /\ toggle[h].pc = "put"
    /\ Put(h)
    /\ toggle' = [toggle EXCEPT ![h] = IdleHandler]

\* _on_api_error: self.request_manager.set_error(error_message)
\* (lines 343-354), after analyze_quiz raised on pool thread w
OnApiError(w, error_message) ==
    /\ success[w].pc = "analyze"
    /\ current_request' = set_error(current_request, error_message)
    /\ success' = [success EXCEPT ![w] = IdleSuccess]
    /\ UNCHANGED << nextId, command_queue, puts, _answer_history,
                    answers_txt, resetting, answersOthers >>


\* the toggle handlers on both listener threads, the Tkinter thread, the
\* tasks of the first pool thread and the passing of time
NextToggle ==
    \/ \E h \in Hooks : \E action \in TogglesOf(h) : TogglePress(h, action)
    \/ \E h \in Hooks : ToggleIsVisible(h)
    \/ \E h \in Hooks : ToggleHide(h)
    \/ \E h \in Hooks : ToggleGetStatus(h)
    \/ \E h \in Hooks : ToggleShow(h)
    \/ \E h \in Hooks : TogglePut(h)
    \/ UiGet /\ UNCHANGED toggle
    \/ UiDone /\ UNCHANGED toggle
    \/ UiShowDestroy /\ UNCHANGED toggle
    \/ UiShowCreate /\ UNCHANGED toggle
    \/ UiShowSave /\ UNCHANGED toggle
    \/ UiHide /\ UNCHANGED toggle
    \/ nextId <= ToggleRequests /\ AnswersAccept(1) /\ UNCHANGED toggle
    \/ \E result \in AnswerResults : OnApiSuccess(1, result) /\ UNCHANGED toggle
    \/ \E error_message \in ErrorMessages :
           OnApiError(1, error_message) /\ UNCHANGED toggle
    \/ AppendAnswer(1) /\ UNCHANGED toggle
    \/ SaveOpen(1) /\ UNCHANGED toggle
    \/ SaveJoin(1) /\ UNCHANGED toggle
    \/ SaveClose(1) /\ UNCHANGED toggle
    \/ Tick

SpecToggle == Init /\ [][NextToggle]_vars


(***************************************************************************)
(* Claims about the toggle handlers.                                       *)
(***************************************************************************)
\* the handler of thread h moves from one position to another in this step
ToggleMoves(h, from, to) == toggle[h].pc = from /\ toggle'[h].pc = to

\* the command put last
LastPut == command_queue'[Len(command_queue')]

\* the content the claim gives for a snapshot
ContentFor(info, content) ==
    CASE info.status = "NONE" -> content.kind = "no data"
      [] info.status = "PROCESSING" ->
            /\ content.kind = "processing"
            /\ content.text = info.elapsed_time
      [] info.status = "COMPLETED" ->
            /\ content.kind = "result"
            /\ content.text = format_display(info.result[1].questions)
      [] info.status = "ERROR" ->
            /\ content.kind = "error"
            /\ content.text =
                  IF Contains("No questions found", info.error[1])
                     THEN << "No questions found in image\nTry capturing again with Alt+Z" >>
                     ELSE << "Error: " \o info.error[1] >>
      [] OTHER -> FALSE

\* C33: a run of on_check_hotkey makes exactly one put, its last step;
\* when is_visible() returned false the handler takes a snapshot of the
\* Tracker and puts a show whose content is the one of the snapshot's
\* status; when it returned true the handler puts a hide without reading
\* the Tracker; no step of the handler changes the Tracker.
C33_ResultsToggle ==
    [][\A h \in Hooks :
        (toggle[h].action = "results" /\ toggle'[h] # toggle[h]) =>
            /\ current_request' = current_request
            /\ puts' = puts + (IF ToggleMoves(h, "put", "idle") THEN 1 ELSE 0)
            /\ ToggleMoves(h, "is_visible", "hide") => _is_visible
            /\ ToggleMoves(h, "is_visible", "get_status") =>
                   ~(producer[h].pc = "visible_exists" /\ _is_visible)
            /\ ToggleMoves(h, "get_status", "show") =>
                   LET info == toggle'[h].status_info[1]
                   IN  IF current_request = None THEN info.status = "NONE"
                       ELSE /\ info.status = current_request.status
                            /\ info.result = current_request.result
                            /\ info.error = current_request.error
                            /\ info.status = "PROCESSING" =>
                                   info.elapsed_time =
                                       Some(clock - current_request.created_at)
            /\ ToggleMoves(h, "put", "idle") =>
                   /\ Len(command_queue') = Len(command_queue) + 1
                   /\ IF toggle[h].status_info = None
                         THEN LastPut.command = "hide"
                         ELSE /\ LastPut.command = "show"
                              /\ ContentFor(toggle[h].status_info[1],
                                            LastPut.content)]_vars


\* the Request ended with "No questions found in image", the popup was
\* hidden, a run of the handler has put its show and the Tkinter thread
\* creates the popup with the guidance
C33_Witness ==
    /\ ui.command.command = "show"
    /\ ui.pc = "show_update"
    /\ ui.command.content.kind = "error"
    /\ ui.command.content.text =
          << "No questions found in image\nTry capturing again with Alt+Z" >>
    /\ current_request # None
    /\ current_request.status = "ERROR"
    /\ command_queue = <<>>
    /\ \A h \in Hooks : toggle[h].pc = "idle"
    /\ puts = 1


\* C34: whenever neither _on_api_success nor on_reset_answers_hotkey is
\* running, the file holds the entries of the history joined by spaces, or
\* the file is absent and the history is empty.
C34_FileAgrees ==
    AnswersIdle =>
        IF answers_txt = None THEN _answer_history = <<>>
        ELSE answers_txt[1] = join(<<" ">>, _answer_history)

(***************************************************************************)
(* Progress of the Orchestrator: the application is started and stop() is  *)
(* never called.  The threads of the interpreter are scheduled fairly: a   *)
(* handler that has passed the cooldown test runs on to its return, a pool *)
(* thread that waits takes the next work item, and every call of           *)
(* analyze_quiz returns or raises.  A trigger, being an event of the       *)
(* outside, need not happen.                                               *)
(***************************************************************************)
\* the statements of on_capture_hotkey past the cooldown test
CaptureRun(h) ==
    \/ \E image \in Images : CaptureStamp(h, image)
    \/ CaptureCreate(h)
    \/ CaptureSubmit(h)
    \/ CaptureTrack(h)
    \/ CaptureCallback(h)

\* analyze_quiz returns or raises, in any of the ways it can
ServiceReturns(w) == \E behaviour \in Behaviours : TaskRun(w, behaviour)

\* the triggers of these runs come through the keyboard path
NextRunning ==
    \/ Start
    \/ CaptureCooldown("keyboard")
    \/ \E image \in Images : CaptureStamp("keyboard", image)
    \/ CaptureCreate("keyboard")
    \/ CaptureSubmit("keyboard")
    \/ CaptureTrack("keyboard")
    \/ CaptureCallback("keyboard")
    \/ \E w \in Workers :
        \/ WorkerGet(w)
        \/ \E behaviour \in Behaviours : TaskRun(w, behaviour)

Scheduling ==
    /\ WF_vars(CaptureRun("keyboard"))
    /\ \A w \in Workers : WF_vars(WorkerGet(w))

SpecRunning ==
    Init /\ [][NextRunning]_vars /\ Scheduling
         /\ \A w \in Workers : WF_vars(ServiceReturns(w))

\* the same program when a call of analyze_quiz need not return
SpecCallHangs == Init /\ [][NextRunning]_vars /\ Scheduling

Processing ==
    current_request # None /\ current_request.status = "PROCESSING"
Settled ==
    current_request # None
        /\ current_request.status \in { "COMPLETED", "ERROR" }
\* the handler h has created the Request rid and is about to submit its task
Accepted(h, rid) ==
    hook[h].pc = "capture_submit" /\ hook[h].request_id = rid

\* C35: when every call of analyze_quiz returns or raises and stop() is not
\* called, the task of every accepted capture completes, after it has
\* started, and a current Request that is PROCESSING is later COMPLETED or
\* ERROR.  Nothing but the return of a service call ends PROCESSING: the
\* Request leaves it in the step in which a task returns from analyze_quiz,
\* or in which the done-callback is added to a task that has finished.
C35_ProcessingEnds ==
    /\ \A rid \in RequestIds :
           (\/ \E h \in Hooks : Accepted(h, rid)
            \/ future[rid].state \in { "PENDING", "RUNNING" })
               ~> (future[rid].state = "FINISHED")
    /\ Processing ~> Settled
    /\ [][/\ \A rid \in RequestIds :
               (future[rid].state # "FINISHED"
                   /\ future'[rid].state = "FINISHED")
                       => future[rid].state = "RUNNING"
          /\ Processing /\ Settled'
               => \/ \E w \in Workers : ServiceReturns(w)
                  \/ \E h \in Hooks :
                         /\ CaptureCallback(h)
                         /\ done(future[hook[h].request_id])]_vars

\* two captures were accepted and both tasks have completed; the service
\* answered the second after the timeout and its Request has left PROCESSING
C35_Witness ==
    /\ nextId > 2
    /\ \A rid \in 1..2 : future[rid].state = "FINISHED"
    /\ log.task.rid = 2
    /\ log.task.behaviour # None
    /\ log.task.behaviour[1].kind = "late"
    /\ Settled

(***************************************************************************)
(* The cooldown of on_capture_hotkey, on the two listener threads.         *)
(***************************************************************************)
\* the handler h returns at the cooldown test
Rejected(h) == hook[h].pc = "idle" /\ CaptureCooldown(h) /\ hook'[h].pc = "idle"
\* the times of the triggers accepted before this step that the program
\* still holds: the one stamped last and those of the handlers that have
\* passed the test and have yet to stamp
AcceptedTimes ==
    { _last_capture_time }
        \cup { hook[o].current_time : o \in { h \in Hooks :
                                                hook[h].pc = "capture_stamp" } }

\* C36: a trigger that passes the cooldown test of on_capture_hotkey is at
\* least _capture_cooldown after, or before, every trigger accepted earlier,
\* on whichever listener thread; a trigger that fails the test creates no
\* Request, submits no task and puts no command on the relay.
C36_CaptureCooldown ==
    [][\A h \in Hooks :
          /\ Triggered(h) =>
                \A t \in AcceptedTimes :
                    \/ hook'[h].current_time - t >= _capture_cooldown
                    \/ t - hook'[h].current_time >= _capture_cooldown
          /\ Rejected(h) =>
                UNCHANGED << current_request, nextId, _work_queue, future,
                             _active_futures, command_queue >>]_vars

(***************************************************************************)
(* The dispatcher again: unbound characters and the modifier flag.         *)
(***************************************************************************)
\* C37: a press, with the modifier held, of a character that no action is
\* bound to invokes no callback and leaves _last_hotkey_time as it was.
C37_UnboundIgnored ==
    [][\A char \in HotkeyChars :
          (Pressed(char) /\ alt_pressed /\ BoundTo(lower(char)) = {}) =>
              /\ event'.invoked = <<>>
              /\ _last_hotkey_time' = _last_hotkey_time]_vars

\* this step handles `handler` for one of the modifier keys
ModifierEvent(handler) ==
    /\ event' # event
    /\ event'.handler = handler
    /\ event'.key \in AltKeys

\* C38: alt_pressed is true exactly when one of alt, alt_l, alt_r is held
\* down.  The key whose press was the last event is held down; it still is
\* after the release of another key, and is no longer after its own release
\* unless another modifier key is down.  So: after the press of a modifier
\* key the flag is true, and after the release of a key that follows the
\* press of another modifier key the flag is true.
C38_ModifierHeld ==
    [][/\ ModifierEvent("on_key_press") => alt_pressed'
       /\ ( /\ event.handler = "on_key_press"
            /\ event.key \in AltKeys
            /\ event' # event
            /\ event'.handler = "on_key_release"
            /\ event'.key # event.key ) => alt_pressed']_vars

(***************************************************************************)
(* Two toggles in a row.                                                   *)
(***************************************************************************)
\* the show put last is still in the queue: the Tkinter thread has not
\* polled it
ShowWaits ==
    /\ command_queue # <<>>
    /\ command_queue[Len(command_queue)].command = "show"

\* C39: a toggle handler that runs alone, after a toggle whose show the
\* Tkinter thread has not polled yet, gets true from is_visible() and goes
\* on to hide(): of two toggles in a row the second puts a hide.
C39_ToggleAlternates ==
    [][\A h \in Hooks :
          ( /\ Toggling = { h }
            /\ toggle[h].pc = "is_visible"
            /\ producer[h].pc = "idle"
            /\ toggle'[h].pc # "is_visible"
            /\ ShowWaits ) => toggle'[h].pc = "hide"]_vars
====
